---- MODULE Spec2Model ----
(***************************************************************************)
(* A model of dpy-devtools (src/src/dpydevtools): the control groups, the  *)
(* user groups (whitelists and blacklists), the access check, the command  *)
(* wrapper and the delegate command.                                       *)
(*                                                                         *)
(* Names and tokens are strings, as in the program.  Python's None is the  *)
(* string None below for a name and the number NoId for an id; neither is  *)
(* a name or an id of the model's universe.                                *)
(***************************************************************************)
EXTENDS Integers, Sequences, FiniteSets, TLC

VARIABLES
    obj,      \* TRUE once DevTools.__init__ has returned, FALSE when it raised
    cg,       \* ControlGroups._groups: group name -> option
    mods,     \* ControlGroups._moderators
    admins,   \* ControlGroups._administrators
    devs,     \* ControlGroups._developers
    cw,       \* UserGroups._groups of the whitelists: name -> list of ids
    cb,       \* UserGroups._groups of the blacklists: name -> list of ids
    trk,      \* TrackerGroups._groups: name -> Tracker
    cmds,     \* the wrappers made by DevTools.command, by their closure
    cog,      \* the commands of a container object: name -> placeholder marker
              \* of the callback and the wrappers put around it
    calls,    \* the wrapper calls that are suspended in the wrapped handler
    now,      \* the UTC clock, in seconds
    out       \* what the last operation returned, sent or raised

vars == <<obj, cg, mods, admins, devs, cw, cb, trk, cmds, cog, calls, now, out>>

(***************************************************************************)
(* Bounds of the model.                                                    *)
(***************************************************************************)
MaxUserId == 2

\* Discord ids are positive.
UserIds == 1..MaxUserId


(***************************************************************************)
(* Values of the program.                                                  *)
(***************************************************************************)
None == "<None>"

NoId == 0

disabled == "ControlGroupOptions.disabled"

enabled == "ControlGroupOptions.enabled"

inherit == "ControlGroupOptions.inherit"

modplus == "ControlGroupOptions.modplus"

adminplus == "ControlGroupOptions.adminplus"

devonly == "ControlGroupOptions.devonly"

ControlGroupOptions == {disabled, enabled, inherit, modplus, adminplus, devonly}

\* The value of an enum member (enums.py: name = "value").
OptionValue(m) ==
    CASE m = disabled -> "disabled"
      [] m = enabled -> "enabled"
      [] m = inherit -> "inherit"
      [] m = modplus -> "modplus"
      [] m = adminplus -> "adminplus"
      [] m = devonly -> "devonly"

M_COMMAND_LOCKED == "This command is currently locked."

EMBED_COLOR__DEF == 15440682

EMBED_COLOR__POS == 4437378

EMBED_COLOR__NEG == 15419207

HISTORY_MAXLEN == 15

\* make_message._make: the embed of a reply, its description being the body
\* in a code block (fenced).
MakeMessage(body, color) == [color |-> color, body |-> body, fenced |-> TRUE]

\* make_message._raw: the embed whose description is the body as given.
MakeRaw(body, color) == [color |-> color, body |-> body, fenced |-> FALSE]

\* str() of an id, as an f-string renders it.
Str(id) == IF id = NoId THEN "None" ELSE ToString(id)

\* The characters of a string: set(s).
Chars(s) == {SubSeq(s, i, i) : i \in 1..Len(s)}

ALLOWCHARS == Chars("abcdefghijklmnopqrstuvwxyz1234567890_")

\* utils._ensure_chars_allowed does not raise.
CharsAllowed(s) == Chars(s) \subseteq ALLOWCHARS

\* The three role tiers of ControlGroups.
Tiers == [mods |-> mods, admins |-> admins, devs |-> devs]

\* Python truthiness of a name: None and "" are falsy.
Truthy(name) == name # None /\ name # ""

\* x in list
Member(x, list) == \E i \in 1..Len(list) : list[i] = x

(***************************************************************************)
(* What an operation leaves behind for the observer.                       *)
(***************************************************************************)
\* op is the operation and inp its inputs, ret what it returned, ran the
\* handlers it called, sent the replies in order, eff the host operations it
\* performed, fail the kind of the error it met (None when it met none) and
\* exc the exception that left it (None when it returned); call is the
\* handler and the argument tuple of func(_parser, ctx, *args), empty when
\* delegate did not come to that call, and was the whitelists and the
\* blacklists as a delegate call found them.
NoOut == [op |-> "none", inp |-> <<>>, ret |-> None, ran |-> <<>>, call |-> <<>>,
          sent |-> <<>>, eff |-> <<>>, fail |-> None, exc |-> None, was |-> <<>>]

(***************************************************************************)
(* ControlGroups                                                           *)
(***************************************************************************)
\* Mutant: __getitem__ creates a missing group at enabled.
CgGetItem_CreatesEnabled(groups, key) ==
    IF key = None
    THEN [val |-> None, groups |-> groups]
    ELSE IF key \notin DOMAIN groups
         THEN [val |-> enabled, groups |-> groups @@ (key :> enabled)]
         ELSE [val |-> groups[key], groups |-> groups]

\* ControlGroups.__getitem__: the value read and the groups afterwards.
CgGetItem(groups, key) ==
    IF key = None
    THEN [val |-> None, groups |-> groups]
    ELSE IF key \notin DOMAIN groups
         THEN [val |-> inherit, groups |-> groups @@ (key :> inherit)]
         ELSE [val |-> groups[key], groups |-> groups]

\* CgDecide with adminplus read as "developers only".
CgDecide_AdminplusDevsOnly(cgvalue, userid, tiers) ==
    IF cgvalue = inherit THEN TRUE
    ELSE IF cgvalue = enabled THEN TRUE
    ELSE IF cgvalue = modplus
            /\ userid \in tiers.mods \cup tiers.admins \cup tiers.devs
         THEN TRUE
    ELSE IF cgvalue = adminplus /\ userid \in tiers.devs THEN TRUE
    ELSE IF cgvalue = devonly /\ userid \in tiers.devs THEN TRUE
    ELSE FALSE

\* The decision of ControlGroups.check once the group's value is resolved.
CgDecide(cgvalue, userid, tiers) ==
    IF cgvalue = inherit THEN TRUE
    ELSE IF cgvalue = enabled THEN TRUE
    ELSE IF cgvalue = modplus
            /\ userid \in tiers.mods \cup tiers.admins \cup tiers.devs
         THEN TRUE
    ELSE IF cgvalue = adminplus /\ userid \in tiers.admins \cup tiers.devs
         THEN TRUE
    ELSE IF cgvalue = devonly /\ userid \in tiers.devs THEN TRUE
    ELSE FALSE

\* CgCheck without the fallback to "global".
CgCheck_NoFallback(groups, group, userid, tiers) ==
    LET first == CgGetItem(groups, group)
    IN [ret |-> CgDecide(first.val, userid, tiers),
        groups |-> first.groups]

\* ControlGroups.check: the result and the groups afterwards.
CgCheck(groups, group, userid, tiers) ==
    LET first == CgGetItem(groups, group)
        second == IF first.val = inherit
                  THEN CgGetItem(first.groups, "global")
                  ELSE first
    IN [ret |-> CgDecide(second.val, userid, tiers),
        groups |-> second.groups]

(***************************************************************************)
(* UserGroups                                                              *)
(***************************************************************************)
\* UserGroups.__getitem__ for a key that is not None: the groups afterwards.
UgGetItem(groups, key) ==
    IF key \notin DOMAIN groups THEN groups @@ (key :> <<>>) ELSE groups

\* UserGroups.check for a key that is not None.
UgCheck(groups, group, userid) ==
    [ret |-> Member(userid, UgGetItem(groups, group)[group]),
     groups |-> UgGetItem(groups, group)]

(***************************************************************************)
(* DevTools._check                                                         *)
(***************************************************************************)
\* Check with the whitelist looked up before the blacklist.
Check_WhitelistFirst(groups, wls, bls, g, w, b, userid, tiers) ==
    LET same == [cg |-> groups, cw |-> wls, cb |-> bls]
        bl == UgCheck(bls, b, userid)
        wl == UgCheck(wls, w, userid)
        gr == CgCheck(groups, g, userid, tiers)
        afterW == IF Truthy(w) THEN [same EXCEPT !.cw = wl.groups] ELSE same
        afterB == IF Truthy(b) THEN [afterW EXCEPT !.cb = bl.groups]
                  ELSE afterW
        afterG == IF Truthy(g) THEN [afterB EXCEPT !.cg = gr.groups]
                  ELSE afterB
    IN IF ~Truthy(g) /\ ~Truthy(w) /\ ~Truthy(b)
       THEN [ret |-> TRUE, st |-> same]
       ELSE IF Truthy(w) /\ wl.ret THEN [ret |-> TRUE, st |-> afterW]
       ELSE IF Truthy(b) /\ bl.ret THEN [ret |-> FALSE, st |-> afterB]
       ELSE IF Truthy(g) /\ gr.ret THEN [ret |-> TRUE, st |-> afterG]
       ELSE [ret |-> FALSE, st |-> afterG]

\* Check with the group consulted before the whitelist, a failing group
\* check denying.
Check_GroupFirst(groups, wls, bls, g, w, b, userid, tiers) ==
    LET same == [cg |-> groups, cw |-> wls, cb |-> bls]
        bl == UgCheck(bls, b, userid)
        wl == UgCheck(wls, w, userid)
        gr == CgCheck(groups, g, userid, tiers)
        afterB == IF Truthy(b) THEN [same EXCEPT !.cb = bl.groups] ELSE same
        afterG == IF Truthy(g) THEN [afterB EXCEPT !.cg = gr.groups]
                  ELSE afterB
        afterW == IF Truthy(w) THEN [afterG EXCEPT !.cw = wl.groups]
                  ELSE afterG
    IN IF ~Truthy(g) /\ ~Truthy(w) /\ ~Truthy(b)
       THEN [ret |-> TRUE, st |-> same]
       ELSE IF Truthy(b) /\ bl.ret THEN [ret |-> FALSE, st |-> afterB]
       ELSE IF Truthy(g) THEN [ret |-> gr.ret, st |-> afterG]
       ELSE IF Truthy(w) /\ wl.ret THEN [ret |-> TRUE, st |-> afterW]
       ELSE [ret |-> FALSE, st |-> afterW]

\* Check that allows when nothing decided.
Check_DefaultAllow(groups, wls, bls, g, w, b, userid, tiers) ==
    LET same == [cg |-> groups, cw |-> wls, cb |-> bls]
        bl == UgCheck(bls, b, userid)
        wl == UgCheck(wls, w, userid)
        gr == CgCheck(groups, g, userid, tiers)
        afterB == IF Truthy(b) THEN [same EXCEPT !.cb = bl.groups] ELSE same
        afterW == IF Truthy(w) THEN [afterB EXCEPT !.cw = wl.groups]
                  ELSE afterB
        afterG == IF Truthy(g) THEN [afterW EXCEPT !.cg = gr.groups]
                  ELSE afterW
    IN IF Truthy(b) /\ bl.ret THEN [ret |-> FALSE, st |-> afterB]
       ELSE IF Truthy(w) /\ wl.ret THEN [ret |-> TRUE, st |-> afterW]
       ELSE IF Truthy(g) /\ ~gr.ret THEN [ret |-> FALSE, st |-> afterG]
       ELSE [ret |-> TRUE, st |-> afterG]

\* Check without the no-restriction shortcut.
Check_NoShortcut(groups, wls, bls, g, w, b, userid, tiers) ==
    LET same == [cg |-> groups, cw |-> wls, cb |-> bls]
        bl == UgCheck(bls, b, userid)
        wl == UgCheck(wls, w, userid)
        gr == CgCheck(groups, g, userid, tiers)
        afterB == IF Truthy(b) THEN [same EXCEPT !.cb = bl.groups] ELSE same
        afterW == IF Truthy(w) THEN [afterB EXCEPT !.cw = wl.groups]
                  ELSE afterB
        afterG == IF Truthy(g) THEN [afterW EXCEPT !.cg = gr.groups]
                  ELSE afterW
    IN IF Truthy(b) /\ bl.ret THEN [ret |-> FALSE, st |-> afterB]
       ELSE IF Truthy(w) /\ wl.ret THEN [ret |-> TRUE, st |-> afterW]
       ELSE IF Truthy(g) /\ gr.ret THEN [ret |-> TRUE, st |-> afterG]
       ELSE [ret |-> FALSE, st |-> afterG]

\* The result, and the groups and lists afterwards (a name that is looked
\* up and does not exist is created on the way).
Check(groups, wls, bls, g, w, b, userid, tiers) ==
    LET same == [cg |-> groups, cw |-> wls, cb |-> bls]
        bl == UgCheck(bls, b, userid)
        wl == UgCheck(wls, w, userid)
        gr == CgCheck(groups, g, userid, tiers)
        afterB == IF Truthy(b) THEN [same EXCEPT !.cb = bl.groups] ELSE same
        afterW == IF Truthy(w) THEN [afterB EXCEPT !.cw = wl.groups]
                  ELSE afterB
        afterG == IF Truthy(g) THEN [afterW EXCEPT !.cg = gr.groups]
                  ELSE afterW
    IN IF ~Truthy(g) /\ ~Truthy(w) /\ ~Truthy(b)
       THEN [ret |-> TRUE, st |-> same]
       ELSE IF Truthy(b) /\ bl.ret THEN [ret |-> FALSE, st |-> afterB]
       ELSE IF Truthy(w) /\ wl.ret THEN [ret |-> TRUE, st |-> afterW]
       ELSE IF Truthy(g) /\ gr.ret THEN [ret |-> TRUE, st |-> afterG]
       ELSE [ret |-> FALSE, st |-> afterG]

(***************************************************************************)
(* Tracker, TrackingSession, TrackerGroups                                 *)
(***************************************************************************)
\* Tracker.__init__
NewTracker == [active |-> <<>>, history |-> <<>>, counts |-> <<>>]

\* TrackerGroups.__getitem__ for a key that is not None: the groups afterwards.
TgGetItem(groups, key) ==
    IF key \notin DOMAIN groups THEN groups @@ (key :> NewTracker) ELSE groups

\* Mutant: a full deque drops its newest entry.
DequeAppend_EvictNewest(deque, x) ==
    IF Len(deque) = HISTORY_MAXLEN THEN Append(SubSeq(deque, 1, Len(deque) - 1), x)
    ELSE Append(deque, x)

\* collections.deque(maxlen=15).append
DequeAppend(deque, x) ==
    IF Len(deque) = HISTORY_MAXLEN THEN Append(Tail(deque), x)
    ELSE Append(deque, x)

\* strftime("%Y-%m-%dT%H:%M:%S") of the clock: one text per second.
DateStr(t) == "T+" \o ToString(t) \o "s"

\* Mutant: the counters are kept by user.
TrackerCall_CountsByUser(t, guildid, userid, time) ==
    [t EXCEPT
        !.counts = IF userid \notin DOMAIN t.counts
                   THEN t.counts @@ (userid :> 1)
                   ELSE [t.counts EXCEPT ![userid] = @ + 1],
        !.history = DequeAppend(t.history, Str(userid) \o "@" \o DateStr(time))]

\* Tracker.__call__: the tracker afterwards.
TrackerCall(t, guildid, userid, time) ==
    [t EXCEPT
        !.counts = IF guildid \notin DOMAIN t.counts
                   THEN t.counts @@ (guildid :> 1)
                   ELSE [t.counts EXCEPT ![guildid] = @ + 1],
        !.history = DequeAppend(t.history, Str(userid) \o "@" \o DateStr(time))]

\* TrackingSession._entry
SessionEntry(guildid, userid) == Str(userid) \o "@" \o Str(guildid)

\* TrackingSession.__aenter__: the tracker afterwards.
SessionEnter(t, entry) == [t EXCEPT !.active = Append(@, entry)]

\* Mutant: remove drops every occurrence of x.
RemoveFirst_All(list, x) == SelectSeq(list, LAMBDA y : y # x)

\* Mutant: remove drops the head of the list.
RemoveFirst_Head(list, x) == Tail(list)

\* list.remove: the list without the first occurrence of x.
RemoveFirst(list, x) ==
    LET i == CHOOSE k \in 1..Len(list) :
                 list[k] = x /\ \A j \in 1..(k - 1) : list[j] # x
    IN SubSeq(list, 1, i - 1) \o SubSeq(list, i + 1, Len(list))

\* Mutant: leaving the session removes nothing.
SessionExit_Keeps(t, entry) == t

\* TrackingSession.__aexit__: the tracker afterwards.
SessionExit(t, entry) == [t EXCEPT !.active = RemoveFirst(@, entry)]

\* The opens a tracker has counted.
RECURSIVE SumCounts(_)
SumCounts(counts) ==
    IF DOMAIN counts = {} THEN 0
    ELSE LET k == CHOOSE x \in DOMAIN counts : TRUE
         IN counts[k] + SumCounts([x \in DOMAIN counts \ {k} |-> counts[x]])

(***************************************************************************)
(* DevTools.command and its wrapper                                        *)
(***************************************************************************)
\* The closure of a wrapper.
Closure(g, w, b, t) == [group |-> g, whitelist |-> w, blacklist |-> b, tracker |-> t]

\* DevTools.command(group=g, whitelist=w, blacklist=b, tracker=t,
\* ignore=ignore)(cmd): the four names are looked up, and so created, before
\* the target is looked at.
Decorate(g, w, b, t, ignore, isCommand) ==
    /\ obj
    /\ cg' = CgGetItem(cg, g).groups
    /\ cw' = IF w = None THEN cw ELSE UgGetItem(cw, w)
    /\ cb' = IF b = None THEN cb ELSE UgGetItem(cb, b)
    /\ trk' = IF t = None THEN trk ELSE TgGetItem(trk, t)
    /\ IF ~ignore /\ ~isCommand
       THEN /\ cmds' = cmds
            /\ out' = [NoOut EXCEPT !.op = "command",
                                    !.inp = <<g, w, b, t, ignore, isCommand>>,
                                    !.exc = "ValueError"]
       ELSE /\ cmds' = cmds \cup {Closure(g, w, b, t)}
            /\ out' = [NoOut EXCEPT !.op = "command",
                                    !.inp = <<g, w, b, t, ignore, isCommand>>,
                                    !.ret = "wrapper"]
    /\ UNCHANGED <<obj, cog, mods, admins, devs, calls, now>>

\* The shapes of a call of a wrapper: "noargs" has no positional argument
\* (its context, if any, is passed by keyword), "noctx" has positional
\* arguments and neither a Context nor an Interaction among them, "context"
\* and "interaction" have one of these among the positional arguments.
Shapes == {"noargs", "noctx", "context", "interaction"}

\* utils.get_utx(args): whether a Context or an Interaction is found.
HasUtx(shape) == shape \in {"context", "interaction"}

\* utils.get_user_id of the utx found: the id of the author of a Context,
\* None when that id is falsy; the id of the user of an Interaction.
GetUserId(shape, userid) ==
    IF shape = "context" THEN (IF userid # 0 THEN userid ELSE NoId) ELSE userid

\* utils.get_sender
GetSender(shape, done) ==
    IF shape = "context" THEN "ctx.send"
    ELSE IF done THEN "followup.send"
    ELSE "response.send_message"

\* The way a call takes through the wrapper: "fast" is the call through
\* without a check, "error" the AttributeError of get_user_id(None),
\* "locked" the refusal, "tracked" and "plain" the two ways to the handler
\* after a passed check.
WrapperPath_DeniedRuns(c, shape, passed) ==
    IF (c.group = None /\ c.whitelist = None /\ c.blacklist = None
        /\ c.tracker = None) \/ shape = "noargs"
    THEN "fast"
    ELSE IF ~HasUtx(shape) THEN "error"
    ELSE IF Truthy(c.tracker) THEN "tracked"
    ELSE "plain"

WrapperPath(c, shape, passed) ==
    IF (c.group = None /\ c.whitelist = None /\ c.blacklist = None
        /\ c.tracker = None) \/ shape = "noargs"
    THEN "fast"
    ELSE IF ~HasUtx(shape) THEN "error"
    ELSE IF ~passed THEN "locked"
    ELSE IF Truthy(c.tracker) THEN "tracked"
    ELSE "plain"

\* A call of the wrapper c, up to the point where it awaits the wrapped
\* handler, returns or raises.  user and guild are the ids of the invoker
\* and of the guild (NoId in a direct message); done is
\* Interaction.response.is_done().
Invoke(c, shape, user, guild, done) ==
    LET userid == GetUserId(shape, user)
        r == Check(cg, cw, cb, c.group, c.whitelist, c.blacklist, userid, Tiers)
        path == WrapperPath(c, shape, r.ret)
        checked == path \in {"locked", "tracked", "plain"}
        entry == SessionEntry(guild, userid)
        groups == TgGetItem(trk, c.tracker)
        opened == SessionEnter(TrackerCall(groups[c.tracker], guild, userid, now), entry)
    IN /\ obj
       /\ c \in cmds
       /\ cg' = IF checked THEN r.st.cg ELSE cg
       /\ cw' = IF checked THEN r.st.cw ELSE cw
       /\ cb' = IF checked THEN r.st.cb ELSE cb
       /\ trk' = IF path = "tracked" THEN [groups EXCEPT ![c.tracker] = opened] ELSE trk
       /\ calls' = IF path \in {"fast", "plain"}
                   THEN Append(calls, [c |-> c, entry |-> None])
                   ELSE IF path = "tracked"
                   THEN Append(calls, [c |-> c, entry |-> entry])
                   ELSE calls
       /\ out' = [NoOut EXCEPT
                    !.op = "invoke",
                    !.inp = <<c, shape, user, guild, done>>,
                    !.ran = IF path \in {"fast", "plain", "tracked"}
                            THEN <<"cmd">> ELSE <<>>,
                    !.sent = IF path = "locked"
                             THEN <<[via |-> GetSender(shape, done),
                                     embed |-> MakeMessage(M_COMMAND_LOCKED,
                                                           EMBED_COLOR__NEG)]>>
                             ELSE <<>>,
                    !.exc = IF path = "error" THEN "AttributeError" ELSE None]
       /\ UNCHANGED <<obj, cog, mods, admins, devs, cmds, now>>

\* The wrapped handler of the i-th suspended call returns (raised = FALSE)
\* or raises; a tracked call leaves its session on the way out.
Finish(i, raised) ==
    LET call == calls[i]
        t == call.c.tracker
    IN /\ obj
       /\ i \in 1..Len(calls)
       /\ trk' = IF call.entry = None THEN trk
                 ELSE [trk EXCEPT ![t] = SessionExit(@, call.entry)]
       /\ calls' = SubSeq(calls, 1, i - 1) \o SubSeq(calls, i + 1, Len(calls))
       /\ out' = [NoOut EXCEPT !.op = "finish", !.inp = <<call.c, call.entry>>,
                               !.ret = IF raised THEN None ELSE "result",
                               !.exc = IF raised THEN "HandlerError" ELSE None]
       /\ UNCHANGED <<obj, cog, cg, mods, admins, devs, cw, cb, cmds, now>>

(***************************************************************************)
(* DevTools.__init__                                                       *)
(***************************************************************************)
\* A constructor whose defaults replace the map instead of updating it.
ControlGroupsInit_DefaultsReplace(cg_defaults) ==
    LET groups == IF cg_defaults # <<>>
                  THEN cg_defaults
                  ELSE ("global" :> enabled)
    IN [groups |-> groups,
        ok |-> \/ cg_defaults = <<>>
               \/ \A k \in DOMAIN groups :
                      CharsAllowed(k) /\ groups[k] \in ControlGroupOptions]

\* ControlGroups.__init__ with its _ensure_default_validity: the groups, and
\* whether no ValueError was raised.  No defaults are the empty map.
ControlGroupsInit(cg_defaults) ==
    LET groups == IF cg_defaults # <<>>
                  THEN cg_defaults @@ ("global" :> enabled)
                  ELSE ("global" :> enabled)
    IN [groups |-> groups,
        ok |-> \/ cg_defaults = <<>>
               \/ \A k \in DOMAIN groups :
                      CharsAllowed(k) /\ groups[k] \in ControlGroupOptions]

\* UserGroups.__init__ with its _ensure_default_validity (the ids of the
\* model are integers).
UserGroupsInit(defaults) ==
    [groups |-> defaults,
     ok |-> \A k \in DOMAIN defaults : CharsAllowed(k)]

\* DevTools.__init__: the containers, and whether construction returned.
DevToolsInit(cg_defaults, cw_defaults, cb_defaults, tracker_defaults) ==
    LET g == ControlGroupsInit(cg_defaults)
        w == UserGroupsInit(cw_defaults)
        b == UserGroupsInit(cb_defaults)
    IN [ok |-> g.ok /\ w.ok /\ b.ok,
        cg |-> g.groups, cw |-> w.groups, cb |-> b.groups,
        trk |-> tracker_defaults,
        args |-> <<cg_defaults, cw_defaults, cb_defaults, tracker_defaults>>]

\* The state a construction leaves.
Constructed(o, moderators, administrators, developers) ==
    /\ obj = o.ok
    /\ cg = o.cg
    /\ cw = o.cw
    /\ cb = o.cb
    /\ trk = o.trk
    /\ mods = moderators
    /\ admins = administrators
    /\ devs = developers
    /\ cmds = {}
    /\ cog = <<>>
    /\ calls = <<>>
    /\ now = 0
    /\ out = [NoOut EXCEPT !.op = "init", !.inp = o.args,
                           !.exc = IF o.ok THEN None ELSE "ValueError"]

(***************************************************************************)
(* Direct calls of the access functions.                                   *)
(***************************************************************************)
\* devtools._control_groups[key]
CgGet(key) ==
    LET r == CgGetItem(cg, key)
    IN /\ obj
       /\ cg' = r.groups
       /\ out' = [NoOut EXCEPT !.op = "cg_get", !.inp = <<key>>,
                               !.ret = IF key = None THEN None ELSE r.val]
       /\ UNCHANGED <<obj, cog, mods, admins, devs, cw, cb, trk, cmds, calls, now>>

\* Mutant: __setitem__ stores any value.
CgSetItem_Unvalidated(groups, key, value) ==
    [ok |-> TRUE, groups |-> (key :> value) @@ groups]

\* ControlGroups.__setitem__: the groups afterwards, and whether no
\* ValueError was raised.
CgSetItem(groups, key, value) ==
    IF value \notin ControlGroupOptions THEN [ok |-> FALSE, groups |-> groups]
    ELSE [ok |-> TRUE, groups |-> (key :> value) @@ groups]

\* devtools._control_groups[key] = value
CgSet(key, value) ==
    LET r == CgSetItem(cg, key, value)
    IN /\ obj
       /\ cg' = r.groups
       /\ out' = [NoOut EXCEPT !.op = "cg_set", !.inp = <<key, value>>,
                               !.exc = IF r.ok THEN None ELSE "ValueError"]
       /\ UNCHANGED <<obj, cog, mods, admins, devs, cw, cb, trk, cmds, calls, now>>

\* devtools._control_groups.check(group, userid)
GroupCheck(group, userid) ==
    LET r == CgCheck(cg, group, userid, Tiers)
    IN /\ obj
       /\ cg' = r.groups
       /\ out' = [NoOut EXCEPT !.op = "cg_check", !.inp = <<group, userid>>,
                               !.ret = r.ret]
       /\ UNCHANGED <<obj, cog, mods, admins, devs, cw, cb, trk, cmds, calls, now>>

\* devtools._check(group, whitelist, blacklist, userid)
Authorize(g, w, b, userid) ==
    LET r == Check(cg, cw, cb, g, w, b, userid, Tiers)
    IN /\ obj
       /\ cg' = r.st.cg
       /\ cw' = r.st.cw
       /\ cb' = r.st.cb
       /\ out' = [NoOut EXCEPT !.op = "check", !.inp = <<g, w, b, userid>>,
                               !.ret = r.ret]
       /\ UNCHANGED <<obj, cog, mods, admins, devs, trk, cmds, calls, now>>

(***************************************************************************)
(* Texts                                                                   *)
(***************************************************************************)
\* sep.join(parts)
RECURSIVE Join(_, _)
Join(parts, sep) ==
    IF parts = <<>> THEN ""
    ELSE IF Len(parts) = 1 THEN parts[1]
    ELSE parts[1] \o sep \o Join(Tail(parts), sep)

\* The decimal digits and their values.
DigitValue == ("0" :> 0) @@ ("1" :> 1) @@ ("2" :> 2) @@ ("3" :> 3) @@ ("4" :> 4) @@ ("5" :> 5) @@ ("6" :> 6) @@ ("7" :> 7) @@ ("8" :> 8) @@ ("9" :> 9)

IsDigits(s) == Len(s) > 0 /\ \A i \in 1..Len(s) : SubSeq(s, i, i) \in DOMAIN DigitValue

RECURSIVE DigitsValue(_)
DigitsValue(s) ==
    IF Len(s) = 0 THEN 0
    ELSE 10 * DigitsValue(SubSeq(s, 1, Len(s) - 1)) + DigitValue[SubSeq(s, Len(s), Len(s))]

\* int(s) of a text of digits with an optional sign (the texts of the model
\* hold neither blanks nor underscores): ok is FALSE for the ValueError.
IntOf(s) ==
    LET signed == Len(s) > 0 /\ SubSeq(s, 1, 1) \in {"-", "+"}
        digits == IF signed THEN SubSeq(s, 2, Len(s)) ELSE s
    IN IF ~IsDigits(digits) THEN [ok |-> FALSE, val |-> 0]
       ELSE [ok |-> TRUE,
             val |-> IF signed /\ SubSeq(s, 1, 1) = "-"
                     THEN 0 - DigitsValue(digits) ELSE DigitsValue(digits)]

\* enums.ControlGroupOptions(value): the member of that value; ok is FALSE
\* for the ValueError.
OptionOf(value) ==
    IF \E m \in ControlGroupOptions : OptionValue(m) = value
    THEN [ok |-> TRUE, val |-> CHOOSE m \in ControlGroupOptions : OptionValue(m) = value]
    ELSE [ok |-> FALSE, val |-> None]

(***************************************************************************)
(* parser.make_parser                                                      *)
(***************************************************************************)
\* The prog of the instance.
Prog == "dt"

\* add_argument(*flags, dest=dest, nargs=nargs, action=action); nargs "0" is
\* that of store_const.
Opt(flags, dest, nargs, action) == [flags |-> flags, dest |-> dest, nargs |-> nargs, action |-> action]

PARSER ==
    [prog |-> Prog, required |-> FALSE, names |-> <<>>, opts |-> <<
        Opt(<<"-x", "--close">>, "_bot__close", "0", "store_const"),
        Opt(<<"-u", "--uptime">>, "_bot__uptime", "0", "store_const"),
        Opt(<<"--update-requirements">>, "_bot__update_requirements", "0", "store_const"),
        Opt(<<"--reload-module">>, "_bot__reload_module", "1", "store")>>]

CG ==
    [prog |-> Prog \o " control-groups", required |-> TRUE, names |-> <<"control-groups", "cg">>, opts |-> <<
        Opt(<<"-l", "--list">>, "_control_groups__list", "0", "store_const"),
        Opt(<<"-E", "--edit-all">>, "_control_groups__edit_all", "1", "store"),
        Opt(<<"-e", "--edit">>, "_control_groups__edit", "2", "store")>>]

CW ==
    [prog |-> Prog \o " control-whitelists", required |-> TRUE, names |-> <<"control-whitelists", "cw">>, opts |-> <<
        Opt(<<"-l", "--list">>, "_control_whitelists__list", "0", "store_const"),
        Opt(<<"-g", "--get">>, "_control_whitelists__get", "1", "store"),
        Opt(<<"-a", "--add">>, "_control_whitelists__add", "2", "Action__StrInt"),
        Opt(<<"-r", "--remove">>, "_control_whitelists__remove", "2", "Action__StrInt")>>]

CB ==
    [prog |-> Prog \o " control-blacklists", required |-> TRUE, names |-> <<"control-blacklists", "cb">>, opts |-> <<
        Opt(<<"-l", "--list">>, "_control_blacklists__list", "0", "store_const"),
        Opt(<<"-g", "--get">>, "_control_blacklists__get", "1", "store"),
        Opt(<<"-a", "--add">>, "_control_blacklists__add", "2", "Action__StrInt"),
        Opt(<<"-r", "--remove">>, "_control_blacklists__remove", "2", "Action__StrInt")>>]

E ==
    [prog |-> Prog \o " extensions", required |-> TRUE, names |-> <<"extensions", "e">>, opts |-> <<
        Opt(<<"-l", "--list">>, "_extensions__list", "0", "store_const"),
        Opt(<<"-R", "--reload-all">>, "_extensions__reload_all", "0", "store_const"),
        Opt(<<"-r", "--reload">>, "_extensions__reload", "1", "store"),
        Opt(<<"-U", "--unload-all">>, "_extensions__unload_all", "0", "store_const"),
        Opt(<<"-u", "--unload">>, "_extensions__unload", "1", "store"),
        Opt(<<"-L", "--load-all">>, "_extensions__load_all", "0", "store_const"),
        Opt(<<"-d", "--load">>, "_extensions__load", "1", "store")>>]

S ==
    [prog |-> Prog \o " sync", required |-> TRUE, names |-> <<"sync", "s">>, opts |-> <<
        Opt(<<"-G", "--guilds">>, "_sync__guilds", "+", "store"),
        Opt(<<"-c", "--current">>, "_sync__current", "0", "store_const"),
        Opt(<<"-g", "--global">>, "_sync__global", "0", "store_const"),
        Opt(<<"-p", "--copy-global-current">>, "_sync__copy_global_current", "0", "store_const"),
        Opt(<<"-P", "--copy-global">>, "_sync__copy_global", "+", "store"),
        Opt(<<"-C", "--clear">>, "_sync__clear_global", "0", "store_const"),
        Opt(<<"-x", "--clear-current">>, "_sync__clear_current", "0", "store_const"),
        Opt(<<"-X", "--clear-guilds">>, "_sync__clear_guilds", "+", "store")>>]

G ==
    [prog |-> Prog \o " git", required |-> TRUE, names |-> <<"git", "g">>, opts |-> <<
        Opt(<<"--pull">>, "_git__pull", "0", "store_const")>>]

C ==
    [prog |-> Prog \o " commands", required |-> TRUE, names |-> <<"commands", "c">>, opts |-> <<
        Opt(<<"-l", "--list">>, "_commands__list", "0", "store_const")>>]

T ==
    [prog |-> Prog \o " trackers", required |-> TRUE, names |-> <<"trackers", "t">>, opts |-> <<
        Opt(<<"-l", "--list">>, "_trackers__list", "0", "store_const"),
        Opt(<<"-g", "--get">>, "_trackers__get", "1", "store")>>]

F ==
    [prog |-> Prog \o " files", required |-> TRUE, names |-> <<"files", "f">>, opts |-> <<
        Opt(<<"-l", "--list">>, "_files__list", "*", "store"),
        Opt(<<"-d", "--download">>, "_files__download", "*", "store"),
        Opt(<<"-u", "--upload">>, "_files__upload", "*", "store"),
        Opt(<<"-r", "--remove">>, "_files__remove", "*", "store")>>]

\* PARSER__SUBPARSER: the parsers added, in the order of their add_parser.
PARSER__SUBPARSER == <<CG, CW, CB, E, S, G, C, T, F>>

(***************************************************************************)
(* CustomParser.parse_args                                                 *)
(***************************************************************************)
\* An attribute of the namespace: set is FALSE while the value is None.
Attr(dest, set, val) == [dest |-> dest, set |-> set, val |-> val]

\* The namespace a parser starts from: every dest at its default, None, in
\* the order of add_argument.
Defaults(p) == [i \in 1..Len(p.opts) |-> Attr(p.opts[i].dest, FALSE, <<>>)]

\* setattr(namespace, dest, val)
SetAttr(ns, dest, val) ==
    [i \in 1..Len(ns) |-> IF ns[i].dest = dest THEN Attr(dest, TRUE, val) ELSE ns[i]]

\* format_usage and format_help of a parser; the synopsis of the options is
\* abridged.
Usage(p) == "usage: " \o p.prog \o " [-h] ...\n"

Help(p) == Usage(p) \o "\noptions:\n  -h, --help ...\n"

\* CustomParser.exit after the messages printed so far: ContainerException.
Exit(messages) == [fail |-> TRUE, messages |-> messages, ns |-> <<>>, extras |-> <<>>]

\* ArgumentParser.error(message): print_usage, then exit(2, message).
Error(p, message) == Exit(<<Usage(p), p.prog \o ": error: " \o message \o "\n">>)

IsHelp(t) == t \in {"-h", "--help"}

\* The option of p that has the flag t, 0 when it has none.
FlagIndex(p, t) ==
    IF \E i \in 1..Len(p.opts) : Member(t, p.opts[i].flags)
    THEN CHOOSE i \in 1..Len(p.opts) : Member(t, p.opts[i].flags)
    ELSE 0

\* _negative_number_matcher
IsNegativeNumber(t) == Len(t) > 1 /\ SubSeq(t, 1, 1) = "-" /\ IsDigits(SubSeq(t, 2, Len(t)))

\* _parse_optional: whether the token is an option string ('O') rather than
\* an argument ('A').  The tokens of the model hold no "=" and abbreviate no
\* long flag.
IsOptional(p, t) ==
    /\ Len(t) > 0
    /\ SubSeq(t, 1, 1) = "-"
    /\ \/ FlagIndex(p, t) # 0
       \/ IsHelp(t)
       \/ Len(t) > 1 /\ ~IsNegativeNumber(t) /\ " " \notin Chars(t)

\* The arguments that follow from position i on, up to the next option string.
RECURSIVE CountArgs(_, _, _)
CountArgs(p, toks, i) ==
    IF i > Len(toks) \/ IsOptional(p, toks[i]) THEN 0
    ELSE 1 + CountArgs(p, toks, i + 1)

\* The name of an option in a message.
ArgName(o) == Join(o.flags, "/")

\* The arguments an option takes of the avail that follow it; -1 when they
\* are too few.
Taken(nargs, avail) ==
    CASE nargs = "0" -> 0
      [] nargs = "1" -> IF avail >= 1 THEN 1 ELSE -1
      [] nargs = "2" -> IF avail >= 2 THEN 2 ELSE -1
      [] nargs = "+" -> IF avail >= 1 THEN avail ELSE -1
      [] nargs = "*" -> avail

Expected(nargs) ==
    CASE nargs = "1" -> "expected 1 argument"
      [] nargs = "2" -> "expected 2 arguments"
      [] nargs = "+" -> "expected at least one argument"

\* Mutant: Action__StrInt stores 0 for a second string that is no integer.
ActionValue_ZeroForText(o, strings) ==
    IF o.action = "store_const" THEN [ok |-> TRUE, val |-> <<>>]
    ELSE IF o.action = "Action__StrInt"
    THEN [ok |-> TRUE, val |-> <<strings[1], IntOf(strings[2]).val>>]
    ELSE [ok |-> TRUE, val |-> strings]

\* The action of an option on its argument strings: the value stored, or the
\* ArgumentError of Action__StrInt.
ActionValue(o, strings) ==
    IF o.action = "store_const" THEN [ok |-> TRUE, val |-> <<>>]
    ELSE IF o.action = "Action__StrInt"
    THEN LET n == IntOf(strings[2])
         IN IF n.ok THEN [ok |-> TRUE, val |-> <<strings[1], n.val>>]
            ELSE [ok |-> FALSE, val |-> <<>>]
    ELSE [ok |-> TRUE, val |-> strings]

\* The choices of the subparsers action.
Choices ==
    CG.names \o CW.names \o CB.names \o E.names \o S.names \o G.names \o C.names \o T.names \o F.names

\* The subparser of a name, 0 when the name is no choice.
ParserIndex(t) ==
    IF \E i \in 1..Len(PARSER__SUBPARSER) : Member(t, PARSER__SUBPARSER[i].names)
    THEN CHOOSE i \in 1..Len(PARSER__SUBPARSER) : Member(t, PARSER__SUBPARSER[i].names)
    ELSE 0

InvalidChoice(t) ==
    "argument {" \o Join(Choices, ",") \o "}: invalid choice: '" \o t
    \o "' (choose from "
    \o Join([i \in 1..Len(Choices) |-> "'" \o Choices[i] \o "'"], ", ") \o ")"

\* ArgumentParser.parse_known_args of parser p from token i on: ns is the
\* namespace so far, seen the dests of the mutually exclusive group met so
\* far, extras the unrecognized tokens.  Every option of a parser is in its
\* one mutually exclusive group.
RECURSIVE ParseKnownArgs(_, _, _, _, _, _)
ParseKnownArgs(p, toks, i, ns, seen, extras) ==
    IF i > Len(toks)
    THEN IF p.required /\ seen = {}
         THEN Error(p, "one of the arguments "
                       \o Join([j \in 1..Len(p.opts) |-> ArgName(p.opts[j])], " ")
                       \o " is required")
         ELSE [fail |-> FALSE, messages |-> <<>>, ns |-> ns, extras |-> extras]
    ELSE LET t == toks[i]
             k == FlagIndex(p, t)
         IN IF IsHelp(t) THEN Exit(<<Help(p)>>)
            ELSE IF k # 0
            THEN LET o == p.opts[k]
                     n == Taken(o.nargs, CountArgs(p, toks, i + 1))
                     v == ActionValue(o, SubSeq(toks, i + 1, i + n))
                 IN IF n < 0
                    THEN Error(p, "argument " \o ArgName(o) \o ": " \o Expected(o.nargs))
                    ELSE IF seen \ {k} # {}
                    THEN Error(p, "argument " \o ArgName(o)
                                  \o ": not allowed with argument "
                                  \o ArgName(p.opts[CHOOSE j \in seen : j # k]))
                    ELSE IF ~v.ok
                    THEN Error(p, "argument " \o ArgName(o)
                                  \o ": argument 2 must be an integer")
                    ELSE ParseKnownArgs(p, toks, i + 1 + n,
                                        SetAttr(ns, o.dest, v.val),
                                        seen \cup {k}, extras)
            ELSE IF IsOptional(p, t) \/ p.names # <<>>
            THEN ParseKnownArgs(p, toks, i + 1, ns, seen, Append(extras, t))
            ELSE IF ParserIndex(t) = 0 THEN Error(p, InvalidChoice(t))
            ELSE LET q == PARSER__SUBPARSER[ParserIndex(t)]
                     sub == ParseKnownArgs(q, SubSeq(toks, i + 1, Len(toks)), 1,
                                           Defaults(q), {}, <<>>)
                 IN IF sub.fail THEN sub
                    ELSE [fail |-> FALSE, messages |-> <<>>,
                          ns |-> ns \o sub.ns, extras |-> extras \o sub.extras]

\* CustomParser.parse_args(queries)
ParseArgs(queries) ==
    LET r == ParseKnownArgs(PARSER, queries, 1, Defaults(PARSER), {}, <<>>)
    IN IF ~r.fail /\ r.extras # <<>>
       THEN Error(PARSER, "unrecognized arguments: " \o Join(r.extras, " "))
       ELSE r

(***************************************************************************)
(* The handlers of delegate.  A handler is given the containers st (cg, cw,*)
(* cb, trk) and answers with the containers it leaves, the replies it sent *)
(* (sent), the host operations it performed (eff) and how it ended.        *)
(***************************************************************************)
\* await ctx.send(embed=embed)
Sent(embed) == [via |-> "ctx.send", embed |-> embed]

\* The handler returned.
Returned(st, sent, eff) ==
    [st |-> st, sent |-> sent, eff |-> eff, fail |-> None, exc |-> None, messages |-> <<>>]

\* The handler raised exc after a failure of the given kind.
Raised(st, sent, eff, kind, exc) ==
    [st |-> st, sent |-> sent, eff |-> eff, fail |-> kind, exc |-> exc, messages |-> <<>>]

\* parser_.error(message) in a handler: the ContainerException of the root
\* parser.
HandlerError(st, sent, eff, kind, message) ==
    [st |-> st, sent |-> sent, eff |-> eff, fail |-> kind,
     exc |-> "ContainerException", messages |-> Error(PARSER, message).messages]

\* The keys of a map as a list (the maps of the model keep no insertion
\* order).
RECURSIVE Keys(_)
Keys(f) ==
    IF DOMAIN f = {} THEN <<>>
    ELSE LET k == CHOOSE x \in DOMAIN f : TRUE
         IN <<k>> \o Keys([x \in DOMAIN f \ {k} |-> f[x]])

RECURSIVE Spaces(_)
Spaces(n) == IF n <= 0 THEN "" ELSE " " \o Spaces(n - 1)

\* max(len(x) for x in texts)
MaxLen(texts) == CHOOSE n \in {Len(x) : x \in texts} : \A x \in texts : Len(x) <= n

\* _control_groups__list
control_groups__list(st) ==
    LET keys == Keys(st.cg)
        max_key_len == MaxLen(DOMAIN st.cg)
        max_val_len == MaxLen({OptionValue(st.cg[k]) : k \in DOMAIN st.cg})
        line(k) == k \o Spaces(max_key_len - Len(k)) \o " -> "
                   \o Spaces(max_val_len - Len(OptionValue(st.cg[k])))
                   \o OptionValue(st.cg[k])
        body == Join([i \in 1..Len(keys) |-> line(keys[i])], "\n")
    IN Returned(st, <<Sent(MakeMessage(body, EMBED_COLOR__DEF))>>, <<>>)

InvalidLevel(value) ==
    "invalid choice: '" \o value \o "' (choose from 'disabled', 'enabled', 'inherit', 'modplus', 'adminplus', 'devonly')"

\* Mutant: edit-all passes over the group "global".
control_groups__edit_all_NotGlobal(st, value) ==
    LET v == OptionOf(value)
        groups == [k \in DOMAIN st.cg |-> IF k = "global" THEN st.cg[k] ELSE v.val]
        body == "set " \o ToString(Cardinality(DOMAIN groups)) \o " control groups to " \o value
    IN IF ~v.ok THEN HandlerError(st, <<>>, <<>>, "validation", InvalidLevel(value))
       ELSE Returned([st EXCEPT !.cg = groups],
                     <<Sent(MakeMessage(body, EMBED_COLOR__POS))>>, <<>>)

\* _control_groups__edit_all
control_groups__edit_all(st, value) ==
    LET v == OptionOf(value)
        groups == [k \in DOMAIN st.cg |-> v.val]
        body == "set " \o ToString(Cardinality(DOMAIN groups)) \o " control groups to " \o value
    IN IF ~v.ok THEN HandlerError(st, <<>>, <<>>, "validation", InvalidLevel(value))
       ELSE Returned([st EXCEPT !.cg = groups],
                     <<Sent(MakeMessage(body, EMBED_COLOR__POS))>>, <<>>)

\* Mutant: an edit of a group ends the sessions of every tracker.
control_groups__edit_EndsSessions(st, group, value) ==
    LET v == OptionOf(value)
        old == OptionValue(st.cg[group])
        body == "edited group '" \o group \o "': value changed from '" \o old
                \o "' to '" \o value \o "'"
    IN IF ~v.ok THEN HandlerError(st, <<>>, <<>>, "validation", InvalidLevel(value))
       ELSE IF group \notin DOMAIN st.cg
       THEN HandlerError(st, <<>>, <<>>, "state", "group '" \o group \o "' not found")
       ELSE Returned([st EXCEPT !.cg = CgSetItem(@, group, v.val).groups,
                                !.trk = [t \in DOMAIN st.trk |->
                                            [st.trk[t] EXCEPT !.active = <<>>]]],
                     <<Sent(MakeMessage(body, EMBED_COLOR__POS))>>, <<>>)

\* _control_groups__edit
control_groups__edit(st, group, value) ==
    LET v == OptionOf(value)
        old == OptionValue(st.cg[group])
        body == "edited group '" \o group \o "': value changed from '" \o old
                \o "' to '" \o value \o "'"
    IN IF ~v.ok THEN HandlerError(st, <<>>, <<>>, "validation", InvalidLevel(value))
       ELSE IF group \notin DOMAIN st.cg
       THEN HandlerError(st, <<>>, <<>>, "state", "group '" \o group \o "' not found")
       ELSE Returned([st EXCEPT !.cg = CgSetItem(@, group, v.val).groups],
                     <<Sent(MakeMessage(body, EMBED_COLOR__POS))>>, <<>>)

\* ", ".join(texts) or "NONE"
JoinOrNone(texts) == IF Join(texts, ", ") = "" THEN "NONE" ELSE Join(texts, ", ")

\* _control_whitelists__list and _control_blacklists__list on their map.
UserGroupsList(st, lists) ==
    Returned(st, <<Sent(MakeMessage(JoinOrNone(Keys(lists)), EMBED_COLOR__DEF))>>, <<>>)

\* Mutant: the get handlers read the list through __getitem__ without the
\* look at the names first.
UserGroupsGet_Lazy(st, lists, kind, name) ==
    LET made == UgGetItem(lists, name)
        body == JoinOrNone([i \in 1..Len(made[name]) |-> ToString(made[name][i])])
    IN Returned(IF kind = "whitelist" THEN [st EXCEPT !.cw = made]
                ELSE [st EXCEPT !.cb = made],
                <<Sent(MakeMessage(body, EMBED_COLOR__DEF))>>, <<>>)

\* _control_whitelists__get and _control_blacklists__get; kind is the word
\* "whitelist" or "blacklist" of the messages.
UserGroupsGet(st, lists, kind, name) ==
    LET body == JoinOrNone([i \in 1..Len(lists[name]) |-> ToString(lists[name][i])])
    IN IF name \notin DOMAIN lists
       THEN HandlerError(st, <<>>, <<>>, "state", kind \o " '" \o name \o "' not found")
       ELSE Returned(st, <<Sent(MakeMessage(body, EMBED_COLOR__DEF))>>, <<>>)

\* Mutant: an add appends the id whether or not the list holds it.
UserGroupsAdd_Again(lists, kind, name, userid) ==
    IF name \notin DOMAIN lists
    THEN [lists |-> lists, ok |-> FALSE,
          text |-> kind \o " '" \o name \o "' not found"]
    ELSE [lists |-> [lists EXCEPT ![name] = Append(@, userid)], ok |-> TRUE,
          text |-> "userid '" \o ToString(userid) \o "' added to the " \o kind \o " '" \o name \o "'"]

\* _control_whitelists__add and _control_blacklists__add: the lists left and
\* the end.  userid is the integer the parser made, so int(userid) is userid.
UserGroupsAdd(lists, kind, name, userid) ==
    IF name \notin DOMAIN lists
    THEN [lists |-> lists, ok |-> FALSE,
          text |-> kind \o " '" \o name \o "' not found"]
    ELSE IF Member(userid, lists[name])
    THEN [lists |-> lists, ok |-> FALSE,
          text |-> kind \o " '" \o name \o "' already contains the userid '" \o ToString(userid) \o "'"]
    ELSE [lists |-> [lists EXCEPT ![name] = Append(@, userid)], ok |-> TRUE,
          text |-> "userid '" \o ToString(userid) \o "' added to the " \o kind \o " '" \o name \o "'"]

\* _control_whitelists__remove and _control_blacklists__remove; the reply of
\* the whitelist one names the list by the placeholder text (shown is the
\* name as the reply shows it).
UserGroupsRemove(lists, kind, name, userid, shown) ==
    IF name \notin DOMAIN lists
    THEN [lists |-> lists, ok |-> FALSE,
          text |-> kind \o " '" \o name \o "' not found"]
    ELSE IF ~Member(userid, lists[name])
    THEN [lists |-> lists, ok |-> FALSE,
          text |-> kind \o " '" \o name \o "' does not contains the userid '" \o ToString(userid) \o "'"]
    ELSE [lists |-> [lists EXCEPT ![name] = RemoveFirst(@, userid)], ok |-> TRUE,
          text |-> "userid '" \o ToString(userid) \o "' removed from the " \o kind \o " '" \o shown \o "'"]

\* The end of an add or a remove whose lists are st2.
Edited(st, st2, r) ==
    IF r.ok THEN Returned(st2, <<Sent(MakeMessage(r.text, EMBED_COLOR__POS))>>, <<>>)
    ELSE HandlerError(st, <<>>, <<>>, "state", r.text)

control_whitelists__list(st) == UserGroupsList(st, st.cw)

control_whitelists__get(st, name) == UserGroupsGet(st, st.cw, "whitelist", name)

control_whitelists__add(st, name, userid) ==
    LET r == UserGroupsAdd(st.cw, "whitelist", name, userid)
    IN Edited(st, [st EXCEPT !.cw = r.lists], r)

control_whitelists__remove(st, name, userid) ==
    LET r == UserGroupsRemove(st.cw, "whitelist", name, userid, "{__name}")
    IN Edited(st, [st EXCEPT !.cw = r.lists], r)

control_blacklists__list(st) == UserGroupsList(st, st.cb)

control_blacklists__get(st, name) == UserGroupsGet(st, st.cb, "blacklist", name)

control_blacklists__add(st, name, userid) ==
    LET r == UserGroupsAdd(st.cb, "blacklist", name, userid)
    IN Edited(st, [st EXCEPT !.cb = r.lists], r)

control_blacklists__remove(st, name, userid) ==
    LET r == UserGroupsRemove(st.cb, "blacklist", name, userid, name)
    IN Edited(st, [st EXCEPT !.cb = r.lists], r)

\* _trackers__list
trackers__list(st) ==
    Returned(st, <<Sent(MakeMessage(JoinOrNone(Keys(st.trk)), EMBED_COLOR__DEF))>>, <<>>)

\* list(reversed(deque))
RECURSIVE Reversed(_)
Reversed(list) == IF list = <<>> THEN <<>> ELSE Append(Reversed(Tail(list)), Head(list))

\* _trackers__get
trackers__get(st, tracker) ==
    LET t == st.trk[tracker]
        guilds == Keys(t.counts)
        current_users == Join(t.active, "\n    ")
        user_history == Join(Reversed(t.history), "\n    ")
        counts == Join([i \in 1..Len(guilds) |->
                           "    " \o Str(guilds[i]) \o " -> " \o ToString(t.counts[guilds[i]])], "\n")
        body == "CURRENT USERS\n    " \o current_users \o "\n\nUSER HISTORY [15]\n    "
                \o user_history \o "\n\nCOUNTS\n" \o counts
    IN IF tracker \notin DOMAIN st.trk
       THEN HandlerError(st, <<>>, <<>>, "state", "tracker '" \o tracker \o "' does not exist")
       ELSE Returned(st, <<Sent(MakeMessage(body, EMBED_COLOR__DEF))>>, <<>>)

\* The host of a delegate call: files_path is whether the instance has one,
\* path what the path of a files operation is ("missing", "file",
\* "empty_dir" or "full_dir"), code the code random.sample draws, arrives
\* whether a message of the author arrives in the channel within the
\* timeout of wait_for, content and attachments that message, raises the
\* guild ids for which tree.sync raises, guild the id of ctx.guild, synced
\* the number of commands tree.sync returns, io_ok whether save, unlink and
\* rmdir succeed, extensions_path what the instance was given as such
\* ("none", "str" or "Path"), extensions the names of the loaded extensions,
\* found the module names under the extensions path, ext_raises the names
\* for which load_extension, unload_extension and reload_extension raise.
NoHost ==
    [files_path |-> TRUE, path |-> "file", code |-> "Xy7", arrives |-> FALSE,
     content |-> "", attachments |-> 0, raises |-> {}, guild |-> 1,
     synced |-> 1, io_ok |-> TRUE, extensions_path |-> "str",
     extensions |-> <<>>, found |-> <<>>, ext_raises |-> {}]

\* The attempts of the loop of _sync__guilds over its argument, which a for
\* statement takes element by element: the characters of a text.  Each is
\* <<id, done>>, its id being NoId when int() raised.
SyncAttempts(guilds, host) ==
    [i \in 1..Len(guilds) |->
        LET n == IntOf(SubSeq(guilds, i, i))
        IN IF ~n.ok THEN <<NoId, FALSE>> ELSE <<n.val, n.val \notin host.raises>>]

\* _sync__guilds(parser_, ctx, guilds)
sync__guilds(st, guilds, host) ==
    LET tries == SyncAttempts(guilds, host)
        guilds_synced == Cardinality({i \in 1..Len(tries) : tries[i][2]})
        called == SelectSeq(tries, LAMBDA a : a[1] # NoId)
        body == "synced command tree to " \o ToString(guilds_synced) \o " of "
                \o ToString(Len(guilds)) \o " guilds"
    IN Returned(st, <<Sent(MakeMessage(body, EMBED_COLOR__POS))>>,
                [i \in 1..Len(called) |-> "tree.sync " \o ToString(called[i][1])])

\* The loop of a bulk operation on extensions: one host call per name, an
\* exception of which is swallowed.  op is the host method.
ExtensionAttempts(op, names) == [i \in 1..Len(names) |-> op \o " " \o names[i]]

\* The names the host call succeeded for.
ExtensionsDone(names, failing) == SelectSeq(names, LAMBDA e : e \notin failing)

\* _extensions__reload_all (op "reload_extension", verb "reloaded", what "reload")
\* and _extensions__unload_all (op "unload_extension", verb "unloaded", what
\* "unload") on the loaded extensions of the host.
ExtensionsAll(st, host, op, verb, what) ==
    LET num_extensions == Len(host.extensions)
        num_succeeded == Len(ExtensionsDone(host.extensions, host.ext_raises))
        body == "extensions " \o verb \o ": " \o ToString(num_succeeded)
                \o " of " \o ToString(num_extensions)
    IN IF num_extensions = 0
       THEN HandlerError(st, <<>>, <<>>, "state",
                         "there are no loaded extensions to " \o what)
       ELSE Returned(st, <<Sent(MakeMessage(body, EMBED_COLOR__POS))>>,
                     ExtensionAttempts(op, host.extensions))

extensions__reload_all(st, host) ==
    ExtensionsAll(st, host, "reload_extension", "reloaded", "reload")

extensions__unload_all(st, host) ==
    ExtensionsAll(st, host, "unload_extension", "unloaded", "unload")

\* The characters of a text in order: what a for statement takes from a str.
CharSeq(s) == [i \in 1..Len(s) |-> SubSeq(s, i, i)]

\* _extensions__load_all.  utils._get_extensions returns the list of the
\* module names found; with the extensions_path a str its path.parts raises
\* AttributeError; the handler unpacks the list into num_extensions, paths,
\* which raises ValueError unless the list has two names, and then loops
\* over the second name.  The host loads the modules it found, but for
\* those in ext_raises.
extensions__load_all(st, host) ==
    LET found == host.found
        num_extensions == found[1]
        paths == CharSeq(found[2])
        loads == {found[i] : i \in 1..Len(found)} \ host.ext_raises
        num_succeeded == Len(SelectSeq(paths, LAMBDA p : p \in loads))
        body == "extensions loaded: " \o ToString(num_succeeded) \o " of "
                \o num_extensions
    IN IF host.extensions_path = "none"
       THEN HandlerError(st, <<>>, <<>>, "state",
                         "extension loading is not possible without "
                         \o "'extensions_path' being set in the 'AdminTools' "
                         \o "instance")
       ELSE IF host.extensions_path = "str"
       THEN Raised(st, <<>>, <<>>, "host", "AttributeError")
       ELSE IF Len(found) # 2
       THEN Raised(st, <<>>, <<>>, "host", "ValueError")
       ELSE Returned(st, <<Sent(MakeMessage(body, EMBED_COLOR__POS))>>,
                     ExtensionAttempts("load_extension", paths))

\* _sync__current
sync__current(st, host) ==
    LET body == "synced " \o ToString(host.synced) \o " commands to the current guild"
        eff == <<"tree.sync " \o Str(host.guild)>>
    IN IF host.guild \in host.raises
       THEN Raised(st, <<>>, eff, "host", "HTTPException")
       ELSE Returned(st, <<Sent(MakeMessage(body, EMBED_COLOR__POS))>>, eff)

\* _bot__uptime at the given time, the instance being started at 0.
bot__uptime(st, time) ==
    LET uptime_seconds == time
        s == uptime_seconds % 60
        m == (uptime_seconds \div 60) % 60
        h == (uptime_seconds \div 3600) % 24
        d == uptime_seconds \div 86400
        body == "UPTIME: " \o ToString(d) \o "d " \o ToString(h) \o "h "
                \o ToString(m) \o "m " \o ToString(s) \o "s"
    IN Returned(st, <<Sent(MakeMessage(body, EMBED_COLOR__DEF))>>, <<>>)

\* str.lower and str.strip of a text of the model.
UpperCase == "ABCDEFGHIJKLMNOPQRSTUVWXYZ"

LowerCase == "abcdefghijklmnopqrstuvwxyz"

RECURSIVE Lower(_)
Lower(s) ==
    IF Len(s) = 0 THEN ""
    ELSE LET c == SubSeq(s, 1, 1)
             l == IF \E i \in 1..Len(UpperCase) : SubSeq(UpperCase, i, i) = c
                  THEN LET i == CHOOSE j \in 1..Len(UpperCase) : SubSeq(UpperCase, j, j) = c
                       IN SubSeq(LowerCase, i, i)
                  ELSE c
         IN l \o Lower(SubSeq(s, 2, Len(s)))

RECURSIVE Strip(_)
Strip(s) ==
    IF Len(s) > 0 /\ SubSeq(s, 1, 1) \in {" ", "\n", "\t"} THEN Strip(SubSeq(s, 2, Len(s)))
    ELSE IF Len(s) > 0 /\ SubSeq(s, Len(s), Len(s)) \in {" ", "\n", "\t"}
    THEN Strip(SubSeq(s, 1, Len(s) - 1))
    ELSE s

NoFilesPath ==
    "the files path has not been defined, and thus all (files | f) operations of this command are non-operable"

\* str(pathlib.Path(files_path, *subpath))
PathOf(subpath) == Join(<<"files">> \o subpath, "/")

\* _files__upload
files__upload(st, subpath, host) ==
    LET prompt == Sent(MakeRaw("Send one file or type 'cancel' to cancel.\n*This dialog will automatically be cancelled<t:300:R>.*",
                               EMBED_COLOR__POS))
        cancelled == Sent(MakeMessage("This dialog has been cancelled.", EMBED_COLOR__NEG))
        saved == Sent(MakeMessage("The file 'upload' has successfully been saved to '"
                                  \o PathOf(subpath) \o "'.", EMBED_COLOR__POS))
    IN IF ~host.files_path THEN HandlerError(st, <<>>, <<>>, "state", NoFilesPath)
       ELSE IF host.path \in {"empty_dir", "full_dir"}
       THEN HandlerError(st, <<>>, <<>>, "validation",
                         "the given path is a directory; (-u | --upload) may only be used on files")
       ELSE IF ~host.arrives
       THEN Raised(st, <<prompt>>, <<"wait_for">>, "timeout", "TimeoutError")
       ELSE IF host.content # "" /\ Lower(Strip(host.content)) = "cancel"
       THEN Returned(st, <<prompt, cancelled>>, <<"wait_for">>)
       ELSE IF host.attachments # 1
       THEN HandlerError(st, <<prompt>>, <<"wait_for">>, "validation",
                         "exactly one attachment must be sent; this dialog has been cancelled")
       ELSE IF ~host.io_ok
       THEN Raised(st, <<prompt>>, <<"wait_for", "save">>, "host", "HTTPException")
       ELSE Returned(st, <<prompt, saved>>, <<"wait_for", "save">>)

\* Mutant: the answer is compared with the code without regard to case.
files__remove_AnyCase(st, subpath, host) ==
    LET remover == IF host.path = "file" THEN "unlink" ELSE "rmdir"
        prompt == Sent(MakeRaw("Send the following code to confirm the removal of '"
                               \o PathOf(subpath) \o "':\n\n" \o host.code
                               \o "\n*This dialog will automatically be cancelled <t:300:R>.*",
                               EMBED_COLOR__POS))
        mismatch == Sent(MakeMessage("The code provided does not match. This dialog has been cancelled.",
                                     EMBED_COLOR__NEG))
        removed == Sent(MakeMessage("'" \o PathOf(subpath) \o "' has successfully been removed.",
                                    EMBED_COLOR__POS))
    IN IF ~host.files_path THEN HandlerError(st, <<>>, <<>>, "state", NoFilesPath)
       ELSE IF host.path = "missing"
       THEN HandlerError(st, <<>>, <<>>, "state", "the given path does not exist")
       ELSE IF host.path = "full_dir"
       THEN Returned(st, <<Sent(MakeMessage("The given directory is not empty.",
                                            EMBED_COLOR__NEG))>>, <<>>)
       ELSE IF ~host.arrives
       THEN Raised(st, <<prompt>>, <<"wait_for">>, "timeout", "TimeoutError")
       ELSE IF Lower(host.content) # Lower(host.code)
       THEN Returned(st, <<prompt, mismatch>>, <<"wait_for">>)
       ELSE IF ~host.io_ok
       THEN Raised(st, <<prompt>>, <<"wait_for", remover>>, "host", "OSError")
       ELSE Returned(st, <<prompt, removed>>, <<"wait_for", remover>>)

\* _files__remove
files__remove(st, subpath, host) ==
    LET remover == IF host.path = "file" THEN "unlink" ELSE "rmdir"
        prompt == Sent(MakeRaw("Send the following code to confirm the removal of '"
                               \o PathOf(subpath) \o "':\n\n" \o host.code
                               \o "\n*This dialog will automatically be cancelled <t:300:R>.*",
                               EMBED_COLOR__POS))
        mismatch == Sent(MakeMessage("The code provided does not match. This dialog has been cancelled.",
                                     EMBED_COLOR__NEG))
        removed == Sent(MakeMessage("'" \o PathOf(subpath) \o "' has successfully been removed.",
                                    EMBED_COLOR__POS))
    IN IF ~host.files_path THEN HandlerError(st, <<>>, <<>>, "state", NoFilesPath)
       ELSE IF host.path = "missing"
       THEN HandlerError(st, <<>>, <<>>, "state", "the given path does not exist")
       ELSE IF host.path = "full_dir"
       THEN Returned(st, <<Sent(MakeMessage("The given directory is not empty.",
                                            EMBED_COLOR__NEG))>>, <<>>)
       ELSE IF ~host.arrives
       THEN Raised(st, <<prompt>>, <<"wait_for">>, "timeout", "TimeoutError")
       ELSE IF host.content # host.code
       THEN Returned(st, <<prompt, mismatch>>, <<"wait_for">>)
       ELSE IF ~host.io_ok
       THEN Raised(st, <<prompt>>, <<"wait_for", remover>>, "host", "OSError")
       ELSE Returned(st, <<prompt, removed>>, <<"wait_for", remover>>)

\* _bot__close
bot__close(st) ==
    Returned(st, <<Sent(MakeMessage("Bot is being closed...", EMBED_COLOR__POS))>>, <<"close">>)

(***************************************************************************)
(* DevTools.delegate                                                       *)
(***************************************************************************)
\* The handlers of the model, by the dest that names them.
Handled ==
    {"_bot__close", "_bot__uptime",
     "_control_groups__list", "_control_groups__edit_all", "_control_groups__edit",
     "_control_whitelists__list", "_control_whitelists__get",
     "_control_whitelists__add", "_control_whitelists__remove",
     "_control_blacklists__list", "_control_blacklists__get",
     "_control_blacklists__add", "_control_blacklists__remove",
     "_sync__guilds", "_sync__current", "_trackers__list", "_trackers__get",
     "_files__upload", "_files__remove",
     "_extensions__reload_all", "_extensions__unload_all", "_extensions__load_all"}

\* The positional parameters a handler declares after parser_ and ctx; -1
\* for a *args parameter.
Params(func) ==
    CASE func \in {"_files__upload", "_files__remove"} -> -1
      [] func \in {"_control_groups__edit", "_control_whitelists__add",
                   "_control_whitelists__remove", "_control_blacklists__add",
                   "_control_blacklists__remove"} -> 2
      [] func \in {"_control_groups__edit_all", "_control_whitelists__get",
                   "_control_blacklists__get", "_sync__guilds", "_trackers__get"} -> 1
      [] OTHER -> 0

\* await func(_parser, ctx, *args), the arguments bound.
Handler(func, args, st, host, time) ==
    CASE func = "_bot__close" -> bot__close(st)
      [] func = "_bot__uptime" -> bot__uptime(st, time)
      [] func = "_control_groups__list" -> control_groups__list(st)
      [] func = "_control_groups__edit_all" -> control_groups__edit_all(st, args[1])
      [] func = "_control_groups__edit" -> control_groups__edit(st, args[1], args[2])
      [] func = "_control_whitelists__list" -> control_whitelists__list(st)
      [] func = "_control_whitelists__get" -> control_whitelists__get(st, args[1])
      [] func = "_control_whitelists__add" -> control_whitelists__add(st, args[1], args[2])
      [] func = "_control_whitelists__remove" -> control_whitelists__remove(st, args[1], args[2])
      [] func = "_control_blacklists__list" -> control_blacklists__list(st)
      [] func = "_control_blacklists__get" -> control_blacklists__get(st, args[1])
      [] func = "_control_blacklists__add" -> control_blacklists__add(st, args[1], args[2])
      [] func = "_control_blacklists__remove" -> control_blacklists__remove(st, args[1], args[2])
      [] func = "_sync__guilds" -> sync__guilds(st, args[1], host)
      [] func = "_sync__current" -> sync__current(st, host)
      [] func = "_trackers__list" -> trackers__list(st)
      [] func = "_trackers__get" -> trackers__get(st, args[1])
      [] func = "_files__upload" -> files__upload(st, args, host)
      [] func = "_files__remove" -> files__remove(st, args, host)
      [] func = "_extensions__reload_all" -> extensions__reload_all(st, host)
      [] func = "_extensions__unload_all" -> extensions__unload_all(st, host)
      [] func = "_extensions__load_all" -> extensions__load_all(st, host)

\* The attributes of a namespace that are not None.
SetAttrs(ns) == {i \in 1..Len(ns) : ns[i].set}

\* Mutant: the last attribute that is not None.
FirstSet_Last(ns) == CHOOSE i \in SetAttrs(ns) : \A j \in SetAttrs(ns) : i >= j

\* The first attribute that is not None, in the order of vars(parsed).
FirstSet(ns) == CHOOSE i \in SetAttrs(ns) : \A j \in SetAttrs(ns) : i <= j

\* Mutant: the reply holds the last diagnostic only.
Caught_LastLine(messages) == Sent(MakeMessage(messages[Len(messages)], EMBED_COLOR__NEG))

\* The reply of the except clause of delegate.
Caught(messages) == Sent(MakeMessage(Join(messages, "\n"), EMBED_COLOR__NEG))

\* What a delegate call ends with.
Ended(st, ran, call, sent, eff, kind, exc) ==
    [st |-> st, ran |-> ran, call |-> call, sent |-> sent, eff |-> eff,
     fail |-> kind, exc |-> exc]

\* The end of delegate after the handler func ended as r: the except clause
\* catches the ContainerException and replies.
AfterHandler(func, args, r) ==
    IF r.exc = "ContainerException"
    THEN Ended(r.st, <<func>>, <<func, args>>, Append(r.sent, Caught(r.messages)),
               r.eff, r.fail, None)
    ELSE Ended(r.st, <<func>>, <<func, args>>, r.sent, r.eff, r.fail, r.exc)

\* await func(_parser, ctx, *args) for the attribute found: a TypeError when
\* the arguments do not fit the parameters of the handler.
CallHandler(attr, st, host, time) ==
    IF Params(attr.dest) >= 0 /\ Len(attr.val) # Params(attr.dest)
    THEN Ended(st, <<>>, <<attr.dest, attr.val>>, <<>>, <<>>, "type", "TypeError")
    ELSE AfterHandler(attr.dest, attr.val,
                      Handler(attr.dest, attr.val, st, host, time))

\* The body of delegate after parse_args ended as parsed.
Dispatch(parsed, st, host, time) ==
    IF parsed.fail
    THEN Ended(st, <<>>, <<>>, <<Caught(parsed.messages)>>, <<>>,
               IF Len(parsed.messages) = 1 THEN "help" ELSE "parse", None)
    ELSE IF SetAttrs(parsed.ns) = {}
    THEN Ended(st, <<>>, <<>>, <<Caught(ParseArgs(<<"-h">>).messages)>>, <<>>,
               "help", None)
    ELSE CallHandler(parsed.ns[FirstSet(parsed.ns)], st, host, time)

\* delegate(ctx, *queries) on the containers st.
DelegateCall(queries, st, host, time) == Dispatch(ParseArgs(queries), st, host, time)

\* Whether parsed reaches no handler or one of the handlers of the model.
Modelled(parsed) ==
    IF parsed.fail \/ SetAttrs(parsed.ns) = {} THEN TRUE
    ELSE parsed.ns[FirstSet(parsed.ns)].dest \in Handled

\* One call of the controller command, from its tokens to its end.
Delegate(queries, host) ==
    /\ obj
    /\ Modelled(ParseArgs(queries))
    /\ \E r \in {DelegateCall(queries, [cg |-> cg, cw |-> cw, cb |-> cb, trk |-> trk], host, now)} :
          /\ cg' = r.st.cg
          /\ cw' = r.st.cw
          /\ cb' = r.st.cb
          /\ trk' = r.st.trk
          /\ out' = [NoOut EXCEPT !.op = "delegate", !.inp = <<queries, host>>,
                                  !.ran = r.ran, !.call = r.call, !.sent = r.sent,
                                  !.eff = r.eff, !.was = <<cw, cb>>,
                                  !.fail = r.fail, !.exc = r.exc]
    /\ UNCHANGED <<obj, cog, mods, admins, devs, cmds, calls, now>>

(***************************************************************************)
(* The access functions on any state of the groups and lists.              *)
(***************************************************************************)
\* Every map from a set of names that holds "global" to the options.
GroupMaps(names) ==
    UNION {[d \cup {"global"} -> ControlGroupOptions] : d \in SUBSET names}

\* Every map from some of the names to a list of at most one id.
ListMaps(names) ==
    UNION {[d -> {<<>>} \cup {<<u>> : u \in UserIds}] : d \in SUBSET names}

CheckInit ==
    /\ obj = TRUE
    /\ cg \in GroupMaps({"g1"})
    /\ mods \in SUBSET UserIds
    /\ admins \in SUBSET UserIds
    /\ devs \in SUBSET UserIds
    /\ cw = <<>>
    /\ cb = <<>>
    /\ trk = <<>>
    /\ cmds = {}
    /\ cog = <<>>
    /\ calls = <<>>
    /\ now = 0
    /\ out = NoOut

\* One call from each state of the groups; what a call leaves behind is
\* again one of the initial states.
CheckNext ==
    /\ out.op = "none"
    /\ \E g \in {None, "global", "g1", "g2"}, u \in UserIds : GroupCheck(g, u)

SpecCheck == CheckInit /\ [][CheckNext]_vars

AuthInit ==
    /\ obj = TRUE
    /\ cg \in GroupMaps({"g1"})
    /\ mods = {}
    /\ admins = {}
    /\ devs \in SUBSET UserIds
    /\ cw \in ListMaps({"wl"})
    /\ cb \in ListMaps({"bl"})
    /\ trk = <<>>
    /\ cmds = {}
    /\ cog = <<>>
    /\ calls = <<>>
    /\ now = 0
    /\ out = NoOut

AuthNext ==
    /\ out.op = "none"
    /\ \E g \in {None, "", "g1"}, w \in {None, "", "wl"},
          b \in {None, "", "bl"}, u \in UserIds : Authorize(g, w, b, u)

SpecAuth == AuthInit /\ [][AuthNext]_vars

(***************************************************************************)
(* One decoration, one call of the wrapper, the end of its handler.        *)
(***************************************************************************)
WrapInit ==
    \E cgd \in {<<>>} \cup {("g1" :> l) : l \in ControlGroupOptions},
       cwd \in {<<>>} \cup {("wl" :> <<u>>) : u \in UserIds},
       cbd \in {<<>>} \cup {("bl" :> <<u>>) : u \in UserIds},
       developers \in {{}, {1}} :
        Constructed(DevToolsInit(cgd, cwd, cbd, <<>>), {}, {}, developers)

WrapNext ==
    \/ /\ out.op = "init"
       /\ \E g \in {None, "", "g1"}, w \in {None, "wl"}, b \in {None, "bl"},
             t \in {None, "t1"}, ignore \in BOOLEAN, isCommand \in BOOLEAN :
              Decorate(g, w, b, t, ignore, isCommand)
    \/ /\ out.op = "command"
       /\ \E c \in cmds, shape \in Shapes, u \in UserIds, guild \in {NoId, 1} :
              \E done \in IF shape = "interaction" THEN BOOLEAN ELSE {FALSE} :
                  Invoke(c, shape, u, guild, done)
    \/ \E raised \in BOOLEAN : Finish(1, raised)

SpecWrap == WrapInit /\ [][WrapNext]_vars

(***************************************************************************)
(* One call of the controller command on an instance as constructed.       *)
(***************************************************************************)
\* The defaults an instance of the model is constructed with.
ListDefaults(name) == {<<>>, (name :> <<>>)} \cup {(name :> <<u>>) : u \in UserIds}

DelegateInit ==
    \E cgd \in {<<>>, ("g1" :> disabled), ("g1" :> inherit)},
       cwd \in ListDefaults("wl"), cbd \in ListDefaults("bl"),
       td \in {<<>>, ("t1" :> NewTracker)} :
        Constructed(DevToolsInit(cgd, cwd, cbd, td), {}, {}, {})

LevelTokens == {OptionValue(m) : m \in ControlGroupOptions} \cup {"bogus"}

IdTokens == {ToString(u) : u \in UserIds} \cup {"01", "x"}

\* The token lists of the model.
Queries ==
    {<<>>, <<"-h">>, <<"-u">>, <<"-x">>, <<"-x", "-u">>, <<"bogus">>, <<"-u", "cg", "-l">>,
     <<"cg">>, <<"cg", "-l">>, <<"control-groups", "--list">>, <<"cg", "-E">>,
     <<"cg", "-e", "g1">>, <<"cg", "-l", "extra">>, <<"cw", "-l", "-g", "wl">>,
     <<"sync", "-G", "1">>, <<"sync", "-G", "12">>, <<"sync", "-G", "1x">>,
     <<"sync", "-G", "1", "2">>, <<"sync", "-G">>, <<"s", "-c">>,
     <<"t", "-l">>, <<"t", "-g", "t1">>, <<"t", "-g", "nope">>,
     <<"f", "-u", "a">>, <<"f", "-r">>, <<"files", "--remove", "a", "b">>}
    \cup {<<"cg", "-E", l>> : l \in LevelTokens}
    \cup {<<"cg", "-e", g, l>> : g \in {"global", "g1", "nope"}, l \in LevelTokens}
    \cup {<<c, "-l">> : c \in {"cw", "cb"}}
    \cup {<<c, "-g", n>> : c \in {"cw", "cb"}, n \in {"wl", "bl"}}
    \cup {<<c, f, n, i>> : c \in {"cw", "cb"}, f \in {"-a", "-r"}, n \in {"wl", "bl"}, i \in IdTokens}

\* The messages that may be the first of the author in the channel.
Arrivals ==
    {[NoHost EXCEPT !.arrives = TRUE, !.content = m[1], !.attachments = m[2]] :
        m \in {<<"cancel", 0>>, <<" Cancel\n", 1>>, <<"Xy7", 0>>, <<"xy7", 0>>,
               <<"", 0>>, <<"", 1>>, <<"", 2>>}}

\* The hosts of a call, by the operation its tokens name.
Hosts(queries) ==
    IF queries # <<>> /\ queries[1] \in {"f", "files"}
    THEN {[NoHost EXCEPT !.files_path = FALSE]}
         \cup {[h EXCEPT !.path = p] :
                  h \in Arrivals \cup {NoHost},
                  p \in {"missing", "file", "empty_dir", "full_dir"}}
         \cup {[h EXCEPT !.path = p, !.io_ok = FALSE] :
                  h \in {a \in Arrivals : a.content = "Xy7" \/ a.attachments = 1},
                  p \in {"file", "empty_dir"}}
    ELSE IF queries # <<>> /\ queries[1] \in {"s", "sync"}
    THEN {[NoHost EXCEPT !.raises = r] : r \in SUBSET {1, 2}}
    ELSE {NoHost}

DelegateNext ==
    /\ out.op = "init"
    /\ \E q \in Queries : \E host \in Hosts(q) : Delegate(q, host)

SpecDelegate == DelegateInit /\ [][DelegateNext]_vars

(***************************************************************************)
(* The life of an instance: construction, then any sequence of get, set,   *)
(* check, decoration and edits through the controller command.             *)
(***************************************************************************)
MaxCommands == 1

\* The defaults of the groups: none, accepted ones and rejected ones (a name
\* outside the charset, a value that is no option).
GroupDefaults ==
    {<<>>, ("g1" :> devonly), ("my_group_1" :> modplus), ("global" :> devonly),
     ("My-Group" :> enabled), ("g1" :> "bogus")}

WhitelistDefaults == {<<>>, ("My-List" :> <<>>), ("wl" :> <<1>>)}

Init ==
    \E cgd \in GroupDefaults, cwd \in WhitelistDefaults :
        Constructed(DevToolsInit(cgd, cwd, <<>>, <<>>), {}, {}, {})

\* The group, whitelist and blacklist of the decorations of the model.
Decorations ==
    {<<"g1", None, None>>, <<"My-Group", "My-List", None>>, <<None, "wl", "bl">>}

\* The edits of the model through the controller command.
Edits ==
    {<<"cg", "-E", "devonly">>, <<"cg", "-E", "bogus">>,
     <<"cg", "-e", "g1", "devonly">>, <<"cg", "-e", "nope", "devonly">>}

Next ==
    \/ \E d \in Decorations, ignore \in BOOLEAN :
          /\ ignore => Cardinality(cmds) < MaxCommands
          /\ Decorate(d[1], d[2], d[3], None, ignore, FALSE)
    \/ \E k \in {None, "global", "My-Group"} : CgGet(k)
    \/ \E k \in {"global", "New-Group"}, v \in {devonly, "bogus"} : CgSet(k, v)
    \/ \E g \in {None, "g1"}, u \in UserIds : Authorize(g, "wl", None, u)
    \/ \E q \in Edits : Delegate(q, NoHost)

Spec == Init /\ [][Next]_vars

(***************************************************************************)
(* Tracked commands: decorations, calls of their wrappers that overlap,    *)
(* and the ends of their handlers.                                         *)
(***************************************************************************)
MaxOpens == 2

MaxInFlight == 2

\* The opens a tracker of the instance has counted, 0 while there is none.
Opens(t) == IF t \in DOMAIN trk THEN SumCounts(trk[t].counts) ELSE 0

TrackInit ==
    \E cbd \in {<<>>, ("bl" :> <<1>>)} :
        Constructed(DevToolsInit(<<>>, <<>>, cbd, <<>>), {}, {}, {})

\* The group, the blacklist and the tracker of the decorations of this
\* specification.
TrackDecorations == {<<"g1", "bl", "t1">>, <<None, None, "t2">>}

TrackNext ==
    \/ \E d \in TrackDecorations :
          /\ Closure(d[1], None, d[2], d[3]) \notin cmds
          /\ Decorate(d[1], None, d[2], d[3], TRUE, FALSE)
    \/ \E c \in cmds, u \in UserIds, guild \in {NoId, 1, 2} :
          /\ Opens("t1") + Opens("t2") < MaxOpens
          /\ Len(calls) < MaxInFlight
          /\ Invoke(c, "context", u, guild, FALSE)
    \/ \E i \in 1..Len(calls), raised \in BOOLEAN : Finish(i, raised)

SpecTrack == TrackInit /\ [][TrackNext]_vars

(***************************************************************************)
(* One tracker through more opens than its history holds.                  *)
(***************************************************************************)
MaxHistoryOpens == 17

MaxTime == 2

\* A second passes on the clock of the host.
Tick ==
    /\ now < MaxTime
    /\ now' = now + 1
    /\ UNCHANGED <<obj, cog, cg, mods, admins, devs, cw, cb, trk, cmds, calls, out>>

HistoryInit == Constructed(DevToolsInit(<<>>, <<>>, <<>>, <<>>), {}, {}, {})

HistoryNext ==
    \/ /\ cmds = {}
       /\ Decorate(None, None, None, "t1", TRUE, FALSE)
    \/ Tick
    \/ \E c \in cmds, u \in {1}, guild \in {1} :
          /\ Opens("t1") < MaxHistoryOpens
          /\ calls = <<>>
          /\ Invoke(c, "context", u, guild, FALSE)
    \/ \E raised \in BOOLEAN : Finish(1, raised)

SpecHistory == HistoryInit /\ [][HistoryNext]_vars

(***************************************************************************)
(* The lists of an instance under any sequence of adds and removes through *)
(* the controller command.                                                 *)
(***************************************************************************)
ListsInit ==
    \E cwd \in {<<>>, ("wl" :> <<>>), ("wl" :> <<2>>), ("wl" :> <<1>>) @@ ("vip" :> <<2>>)},
       cbd \in {<<>>, ("bl" :> <<1>>)} :
        Constructed(DevToolsInit(<<>>, cwd, cbd, <<>>), {}, {}, {})

\* The adds and removes of the model: both kinds of list, each with a list
\* it has and one it does not have, and two ids, one of them written in two
\* ways.
ListQueries ==
    {<<c, f, n, i>> : c \in {"cw", "cb"}, f \in {"-a", "-r"},
                      n \in {"wl", "bl"}, i \in {"1", "2", "01"}}

ListsNext == \E q \in ListQueries : Delegate(q, NoHost)

SpecLists == ListsInit /\ [][ListsNext]_vars

(***************************************************************************)
(* Lookups, checks, decorations and calls of wrappers between edits of the *)
(* groups.                                                                 *)
(***************************************************************************)
\* devtools._control_whitelists[key] (which = "cw") and
\* devtools._control_blacklists[key] (which = "cb")
UgGet(which, key) ==
    LET groups == IF which = "cw" THEN cw ELSE cb
        after == IF key = None THEN groups ELSE UgGetItem(groups, key)
    IN /\ obj
       /\ cw' = IF which = "cw" THEN after ELSE cw
       /\ cb' = IF which = "cb" THEN after ELSE cb
       /\ out' = [NoOut EXCEPT !.op = "ug_get", !.inp = <<which, key>>,
                               !.ret = IF key = None THEN None ELSE "list",
                               !.eff = IF key = None THEN <<>> ELSE after[key]]
       /\ UNCHANGED <<obj, cog, cg, mods, admins, devs, trk, cmds, calls, now>>

FrameInit ==
    \E cgd \in {<<>>, ("g1" :> disabled)} :
        Constructed(DevToolsInit(cgd, ("wl" :> <<1>>), <<>>, <<>>), {}, {}, {})

\* The group, whitelist and blacklist of the decorations.
FrameDecorations == {<<"g1", "wl", None>>, <<"g2", None, "bl">>}

\* The changes of levels: by assignment and through the controller command.
FrameSets == {<<"g1", enabled>>, <<"g1", "bogus">>}

FrameEdits == {<<"cg", "-e", "g1", "devonly">>, <<"cg", "-E", "modplus">>}

FrameNext ==
    \/ \E k \in {None, "g1", "g2"} : CgGet(k)
    \/ \E which \in {"cw", "cb"}, k \in {None, "w2"} : UgGet(which, k)
    \/ \E g \in {None, "g1", "g2"} : GroupCheck(g, 1)
    \/ \E g \in {None, "g2"}, w \in {None, "w2"}, b \in {None, "bl"} :
          Authorize(g, w, b, 1)
    \/ \E d \in FrameDecorations : Decorate(d[1], d[2], d[3], None, TRUE, FALSE)
    \/ \E c \in cmds, u \in {1, 2} :
          /\ calls = <<>>
          /\ Invoke(c, "context", u, 1, FALSE)
    \/ \E raised \in BOOLEAN : Finish(1, raised)
    \/ \E s \in FrameSets : CgSet(s[1], s[2])
    \/ \E q \in FrameEdits : Delegate(q, NoHost)

SpecFrame == FrameInit /\ [][FrameNext]_vars

(***************************************************************************)
(* The bulk operations of the controller command.                          *)
(***************************************************************************)
BulkInit ==
    \E cgd \in {<<>>, ("g1" :> disabled)} :
        Constructed(DevToolsInit(cgd, <<>>, <<>>, <<>>), {}, {}, {})

BulkQueries ==
    {<<"e", "-R">>, <<"extensions", "--unload-all">>, <<"e", "-L">>,
     <<"s", "-G", "1">>, <<"s", "-G", "2", "1">>, <<"sync", "--guilds", "1", "2">>}

\* The lists of names the host may hold as loaded or find as modules.
ExtensionLists == {<<>>, <<"a">>, <<"a", "b">>, <<"a", "b", "c">>}

\* The hosts of a bulk call, by the operation its tokens name.
BulkHosts(queries) ==
    IF queries[1] \in {"s", "sync"}
    THEN {[NoHost EXCEPT !.raises = r] : r \in SUBSET {1, 2}}
    ELSE IF queries[2] = "-L"
    THEN {[NoHost EXCEPT !.extensions_path = p, !.found = f, !.ext_raises = r] :
             p \in {"none", "str", "Path"}, f \in ExtensionLists,
             r \in {{}, {"a"}, {"b"}}}
    ELSE {[NoHost EXCEPT !.extensions = e, !.ext_raises = r] :
             e \in ExtensionLists, r \in SUBSET {"a", "b"}}

BulkNext == \E q \in BulkQueries : \E host \in BulkHosts(q) : Delegate(q, host)

SpecBulk == BulkInit /\ [][BulkNext]_vars

(***************************************************************************)
(* DevTools.placeholder, resolve_placeholders and add_command on the       *)
(* commands of a container object, and calls of these commands.            *)
(***************************************************************************)
MaxWrappers == 2

\* The class body of the container defines the command name; marker is
\* <<kwargs>> when DevTools.placeholder(**kwargs) decorates it, which sets
\* __dpy_devtools_placeholder__ on its callback, and <<>> when not.
Define(name, marker) ==
    /\ name \notin DOMAIN cog
    /\ cog' = cog @@ (name :> [marker |-> marker, wrappers |-> <<>>])
    /\ out' = [NoOut EXCEPT !.op = "placeholder", !.inp = <<name, marker>>,
                            !.ret = "cmd"]
    /\ UNCHANGED <<obj, cg, mods, admins, devs, cw, cb, trk, cmds, calls, now>>

\* The lookups of DevTools.command(**kwargs) on the containers st.
CommandLookups(st, c) ==
    [cg |-> CgGetItem(st.cg, c.group).groups,
     cw |-> IF c.whitelist = None THEN st.cw ELSE UgGetItem(st.cw, c.whitelist),
     cb |-> IF c.blacklist = None THEN st.cb ELSE UgGetItem(st.cb, c.blacklist),
     trk |-> IF c.tracker = None THEN st.trk ELSE TgGetItem(st.trk, c.tracker)]

\* add_command(cmd, **kwargs): cmd._callback becomes a wrapper around the
\* callback it had.  functools.wraps copies the __dict__ of the callback to
\* the wrapper, the marker with it, so the marker of the command stays.
AddCommand(acc, name, c) ==
    [st |-> CommandLookups(acc.st, c),
     cog |-> [acc.cog EXCEPT ![name].wrappers = Append(@, c)]]

\* The loop of resolve_placeholders over the commands named.
RECURSIVE ResolveAll(_, _)
ResolveAll(acc, names) ==
    IF names = {} THEN acc
    ELSE LET name == CHOOSE x \in names : TRUE
             kwargs == acc.cog[name].marker
         IN ResolveAll(IF kwargs = <<>> THEN acc
                       ELSE AddCommand(acc, name, kwargs[1]),
                       names \ {name})

\* devtools.resolve_placeholders(obj)
ResolvePlaceholders ==
    /\ obj
    /\ \E r \in {ResolveAll([st |-> [cg |-> cg, cw |-> cw, cb |-> cb, trk |-> trk],
                             cog |-> cog], DOMAIN cog)} :
          /\ cg' = r.st.cg
          /\ cw' = r.st.cw
          /\ cb' = r.st.cb
          /\ trk' = r.st.trk
          /\ cog' = r.cog
    /\ out' = [NoOut EXCEPT !.op = "resolve_placeholders"]
    /\ UNCHANGED <<obj, mods, admins, devs, cmds, calls, now>>

\* The sessions of the given <<tracker, token>> pairs left, last first.
RECURSIVE ExitAll(_, _)
ExitAll(trackers, held) ==
    IF held = <<>> THEN trackers
    ELSE LET h == held[Len(held)]
         IN ExitAll([trackers EXCEPT ![h[1]] = SessionExit(@, h[2])],
                    SubSeq(held, 1, Len(held) - 1))

\* A call with a Context through the wrappers from the i-th down to the
\* first, the callback proper: acc holds the containers, the sessions held,
\* the steps taken ("_check" for an access check and "session" for an open)
\* and whether a wrapper refused.  A refusal returns through the sessions
\* the outer wrappers hold, which are left.
RECURSIVE Through(_, _, _, _, _, _)
Through(wrappers, i, acc, userid, guildid, time) ==
    IF i = 0 THEN acc
    ELSE LET c == wrappers[i]
             r == Check(acc.st.cg, acc.st.cw, acc.st.cb,
                        c.group, c.whitelist, c.blacklist, userid, Tiers)
             path == WrapperPath(c, "context", r.ret)
             checked == [cg |-> r.st.cg, cw |-> r.st.cw, cb |-> r.st.cb,
                         trk |-> acc.st.trk]
             entry == SessionEntry(guildid, userid)
             groups == TgGetItem(acc.st.trk, c.tracker)
             opened == SessionEnter(TrackerCall(groups[c.tracker], guildid, userid, time),
                                    entry)
         IN IF path = "fast"
            THEN Through(wrappers, i - 1,
                         [acc EXCEPT !.layers = Append(@, [c |-> c, entry |-> None])],
                         userid, guildid, time)
            ELSE IF path = "locked"
            THEN [acc EXCEPT !.st = [checked EXCEPT !.trk = ExitAll(@, acc.held)],
                             !.held = <<>>, !.layers = <<>>,
                             !.eff = Append(@, "_check"), !.denied = TRUE]
            ELSE IF path = "tracked"
            THEN Through(wrappers, i - 1,
                         [acc EXCEPT !.st = [checked EXCEPT
                                               !.trk = [groups EXCEPT ![c.tracker] = opened]],
                                     !.held = Append(@, <<c.tracker, entry>>),
                                     !.layers = Append(@, [c |-> c, entry |-> entry]),
                                     !.eff = @ \o <<"_check", "session">>],
                         userid, guildid, time)
            ELSE Through(wrappers, i - 1,
                         [acc EXCEPT !.st = checked,
                                     !.layers = Append(@, [c |-> c, entry |-> None]),
                                     !.eff = Append(@, "_check")],
                         userid, guildid, time)

\* A call of the command name of the container with a Context, up to the
\* point where the callback proper is awaited or a wrapper has refused.
InvokeMember(name, user, guild) ==
    LET userid == GetUserId("context", user)
        wrappers == cog[name].wrappers
    IN /\ obj
       /\ name \in DOMAIN cog
       /\ \E r \in {Through(wrappers, Len(wrappers),
                            [st |-> [cg |-> cg, cw |-> cw, cb |-> cb, trk |-> trk],
                             held |-> <<>>, layers |-> <<>>, eff |-> <<>>,
                             denied |-> FALSE],
                            userid, guild, now)} :
             /\ cg' = r.st.cg
             /\ cw' = r.st.cw
             /\ cb' = r.st.cb
             /\ trk' = r.st.trk
             /\ calls' = IF r.denied THEN calls
                         ELSE calls \o r.layers
                                \o <<[c |-> Closure(None, None, None, None),
                                      entry |-> None]>>
             /\ out' = [NoOut EXCEPT
                          !.op = "invoke_member",
                          !.inp = <<name, user, guild>>,
                          !.ran = IF r.denied THEN <<>> ELSE <<"cmd">>,
                          !.eff = r.eff,
                          !.sent = IF r.denied
                                   THEN <<[via |-> GetSender("context", FALSE),
                                           embed |-> MakeMessage(M_COMMAND_LOCKED,
                                                                 EMBED_COLOR__NEG)]>>
                                   ELSE <<>>]
       /\ UNCHANGED <<obj, cog, mods, admins, devs, cmds, now>>

\* The sessions the suspended calls hold, outermost first.
HeldBy(suspended) ==
    LET tracked == SelectSeq(suspended, LAMBDA call : call.entry # None)
    IN [i \in 1..Len(tracked) |-> <<tracked[i].c.tracker, tracked[i].entry>>]

\* The callback proper of the suspended call of a command of the container
\* returns or raises, and with it every wrapper around it, each leaving the
\* session it holds.
FinishMember(raised) ==
    /\ obj
    /\ calls # <<>>
    /\ trk' = ExitAll(trk, HeldBy(calls))
    /\ calls' = <<>>
    /\ out' = [NoOut EXCEPT !.op = "finish_member",
                            !.ret = IF raised THEN None ELSE "result",
                            !.exc = IF raised THEN "HandlerError" ELSE None]
    /\ UNCHANGED <<obj, cog, cg, mods, admins, devs, cw, cb, cmds, now>>

ResolveInit ==
    \E cbd \in {<<>>, ("bl" :> <<1>>)} :
        Constructed(DevToolsInit(<<>>, <<>>, cbd, <<>>), {}, {}, {})

\* The commands of the container and their placeholders.
Markers ==
    {<<"a", <<Closure("g1", None, "bl", "t1")>> >>,
     <<"b", <<Closure(None, None, None, "t2")>> >>,
     <<"b", <<>> >>}

ResolveNext ==
    \/ /\ out.op \in {"init", "placeholder"}
       /\ \E m \in Markers : Define(m[1], m[2])
    \/ /\ cog # <<>>
       /\ \A name \in DOMAIN cog : Len(cog[name].wrappers) < MaxWrappers
       /\ calls = <<>>
       /\ ResolvePlaceholders
    \/ \E name \in DOMAIN cog, u \in UserIds, guild \in {NoId, 1} :
          /\ calls = <<>>
          /\ Opens("t1") + Opens("t2") < MaxOpens
          /\ InvokeMember(name, u, guild)
    \/ \E raised \in BOOLEAN : FinishMember(raised)

SpecResolve == ResolveInit /\ [][ResolveNext]_vars

(***************************************************************************)
(* Edits of the permissions of a tracked command while calls of it are in  *)
(* flight.                                                                 *)
(***************************************************************************)
EditInit == Constructed(DevToolsInit(<<>>, <<>>, ("bl" :> <<>>), <<>>), {}, {}, {})

\* The edits of the group and of the blacklist of the command.
PermissionEdits ==
    {<<"cg", "-e", "g1", "disabled">>, <<"cg", "-e", "g1", "enabled">>,
     <<"cb", "-a", "bl", "1">>, <<"cb", "-r", "bl", "1">>}

EditNext ==
    \/ /\ cmds = {}
       /\ Decorate("g1", None, "bl", "t1", TRUE, FALSE)
    \/ \E c \in cmds, u \in {1, 2} :
          /\ Opens("t1") < MaxOpens
          /\ Len(calls) < MaxInFlight
          /\ Invoke(c, "context", u, 1, FALSE)
    \/ \E i \in 1..Len(calls), raised \in BOOLEAN : Finish(i, raised)
    \/ \E q \in PermissionEdits : Delegate(q, NoHost)
    \/ \E v \in {disabled, inherit} : CgSet("g1", v)

SpecEdit == EditInit /\ [][EditNext]_vars

(***************************************************************************)
(* The claims about the access functions.                                  *)
(***************************************************************************)
\* The decision table of the specification (section 4.1), on the tiers.
Table(level, userid) ==
    CASE level = enabled -> TRUE
      [] level = disabled -> FALSE
      [] level = inherit -> TRUE
      [] level = modplus -> userid \in mods \cup admins \cup devs
      [] level = adminplus -> userid \in admins \cup devs
      [] level = devonly -> userid \in devs

\* The last operation was _check(g, w, b, userid).
Checked == out.op = "check"

OnList(lists, name, userid) ==
    Truthy(name) /\ name \in DOMAIN lists /\ Member(userid, lists[name])

\* The level of a group, None when there is no such group.
LevelOf(g) == IF g \in DOMAIN cg THEN cg[g] ELSE None

\* The group check of the table succeeds for the named group.
GroupAllows(g, userid) ==
    /\ Truthy(g)
    /\ g \in DOMAIN cg
    /\ Table(IF cg[g] = inherit THEN cg["global"] ELSE cg[g], userid)

\* C2: blacklist dominance. Whenever _check was called for a user id that
\* is in the named blacklist, it returned False, whatever the group and
\* the whitelist.
C2_BlacklistDominance ==
    (Checked /\ OnList(cb, out.inp[3], out.inp[4])) => out.ret = FALSE

\* A blacklisted user who is whitelisted and whose group is enabled was
\* refused.
C2_Witness ==
    /\ Checked
    /\ OnList(cb, out.inp[3], out.inp[4])
    /\ OnList(cw, out.inp[2], out.inp[4])
    /\ out.inp[1] = "g1"
    /\ LevelOf("g1") = enabled
    /\ out.ret = FALSE

\* C3: whitelist override. Whenever _check was called for a user id that
\* is in the named whitelist and not in the named blacklist (or with no
\* blacklist named), it returned True for every level of the group.
C3_WhitelistOverride ==
    (Checked /\ OnList(cw, out.inp[2], out.inp[4])
             /\ ~OnList(cb, out.inp[3], out.inp[4])) => out.ret = TRUE

\* A whitelisted user was let in although the command's group is disabled.
C3_Witness ==
    /\ Checked
    /\ OnList(cw, out.inp[2], out.inp[4])
    /\ out.inp[3] = "bl"
    /\ ~OnList(cb, out.inp[3], out.inp[4])
    /\ out.inp[1] = "g1"
    /\ LevelOf("g1") = disabled
    /\ out.ret = TRUE

\* C4: fall-through deny. Whenever _check was called with at least one
\* selector, for a user on neither named list and with no group check
\* that succeeds, it returned False.
C4_FallThroughDeny ==
    (Checked /\ (Truthy(out.inp[1]) \/ Truthy(out.inp[2]) \/ Truthy(out.inp[3]))
             /\ ~OnList(cb, out.inp[3], out.inp[4])
             /\ ~OnList(cw, out.inp[2], out.inp[4])
             /\ ~GroupAllows(out.inp[1], out.inp[4])) => out.ret = FALSE

\* A call that names only a blacklist, the user not on it, was denied.
C4_Witness ==
    /\ Checked
    /\ out.inp[1] = None
    /\ out.inp[2] = None
    /\ out.inp[3] = "bl"
    /\ "bl" \in DOMAIN cb
    /\ cb["bl"] # <<>>
    /\ ~Member(out.inp[4], cb["bl"])
    /\ out.ret = FALSE

\* C5: no restriction. Whenever _check was called with the three selectors
\* absent or empty, it returned True.
C5_NoSelectors ==
    (Checked /\ ~Truthy(out.inp[1]) /\ ~Truthy(out.inp[2])
             /\ ~Truthy(out.inp[3])) => out.ret = TRUE

\* A call without selectors returned True in a state where the user is on
\* a blacklist and every group is disabled.
C5_Witness ==
    /\ Checked
    /\ out.inp[1] = ""
    /\ out.inp[2] = None
    /\ out.inp[3] = None
    /\ "bl" \in DOMAIN cb
    /\ Member(out.inp[4], cb["bl"])
    /\ \A g \in DOMAIN cg : cg[g] = disabled
    /\ out.ret = TRUE

\* The last operation was ControlGroups.check(group, userid) for a name.
GroupChecked == out.op = "cg_check" /\ out.inp[1] # None

\* C6: the decision table. Whenever check was called for a group whose
\* level is not inherit, it returned what the table gives for that level:
\* true for enabled, false for disabled, membership of the tiers' unions
\* for modplus, adminplus and devonly.
C6_DecisionTable ==
    (GroupChecked /\ cg[out.inp[1]] # inherit)
        => out.ret = Table(cg[out.inp[1]], out.inp[2])

\* An administrator who is no developer passed an adminplus group.
C6_Witness ==
    /\ GroupChecked
    /\ cg[out.inp[1]] = adminplus
    /\ out.inp[2] \in admins
    /\ out.inp[2] \notin devs
    /\ out.ret = TRUE

\* C7: inheritance. Whenever check was called for a group whose level is
\* inherit, it returned what the table gives for the level of "global",
\* which is true when "global" is inherit as well.
C7_Inheritance ==
    (GroupChecked /\ cg[out.inp[1]] = inherit)
        => out.ret = Table(cg["global"], out.inp[2])

\* A group that did not exist was created at inherit and refused a user
\* whom the level of "global" refuses.
C7_Witness ==
    /\ GroupChecked
    /\ out.inp[1] = "g2"
    /\ cg["g2"] = inherit
    /\ cg["global"] = devonly
    /\ out.inp[2] \notin devs
    /\ out.ret = FALSE

(***************************************************************************)
(* The claims about the wrapper.                                           *)
(***************************************************************************)
\* The last operation was a call of a wrapper.
Invoked == out.op = "invoke"

\* The wrapper was made with at least one of group, whitelist, blacklist.
Gated(c) == c.group # None \/ c.whitelist # None \/ c.blacklist # None

\* authorize(group, whitelist, blacklist, userid) on the present state.
Authorized(c, userid) ==
    Check(cg, cw, cb, c.group, c.whitelist, c.blacklist, userid, Tiers).ret

\* The handler was not run and the one message sent is the locked notice.
Refused ==
    /\ out.ran = <<>>
    /\ Len(out.sent) = 1
    /\ out.sent[1].embed = MakeMessage(M_COMMAND_LOCKED, EMBED_COLOR__NEG)

\* C1 as stated: for every call of a wrapper made with at least one of
\* group, whitelist and blacklist, an invoker who is not authorized is
\* refused with exactly one locked notice, and the handler runs only for an
\* authorized invoker.
C1_EveryInvocation ==
    (Invoked /\ Gated(out.inp[1]))
        => /\ ~Authorized(out.inp[1], out.inp[3]) => Refused
           /\ out.ran # <<>> => Authorized(out.inp[1], out.inp[3])

\* C1 as amended: the same, for the calls that have a Context or an
\* Interaction among their positional arguments.
C1_InvocationWithContext ==
    (Invoked /\ Gated(out.inp[1]) /\ HasUtx(out.inp[2]))
        => /\ ~Authorized(out.inp[1], out.inp[3]) => Refused
           /\ out.ran # <<>> => Authorized(out.inp[1], out.inp[3])

\* A blacklisted user of an interaction that was already answered got the
\* notice as a follow-up, and the handler did not run.
C1_Witness ==
    /\ Invoked
    /\ out.inp[2] = "interaction"
    /\ OnList(cb, out.inp[1].blacklist, out.inp[3])
    /\ ~Authorized(out.inp[1], out.inp[3])
    /\ Refused
    /\ out.sent[1].via = "followup.send"
    /\ calls = <<>>

(***************************************************************************)
(* The claims about the life of an instance.                               *)
(***************************************************************************)
\* C8: in every reachable state of a constructed instance, after any
\* sequence of get, set, edit, edit-all, decoration and authorization, a
\* group named "global" exists; right after a construction whose defaults do
\* not name it, its level is enabled.
C8_GlobalExists ==
    obj => /\ "global" \in DOMAIN cg
           /\ (out.op = "init" /\ "global" \notin DOMAIN out.inp[1])
                  => cg["global"] = enabled

\* An edit-all has set every group, "global" among them, to devonly, after a
\* decoration made a second group.
C8_Witness ==
    /\ obj
    /\ out.op = "delegate"
    /\ out.ran = <<"_control_groups__edit_all">>
    /\ out.fail = None
    /\ "global" \in DOMAIN cg
    /\ cg["global"] = devonly
    /\ "g1" \in DOMAIN cg

\* The names the defaults of a construction give to groups and lists.
DefaultNames == DOMAIN out.inp[1] \cup DOMAIN out.inp[2] \cup DOMAIN out.inp[3]

\* C9: group and list names are validated at construction and at mutation:
\* a construction that names a group or list outside the charset is
\* rejected, one whose names are inside it (and whose levels are options) is
\* accepted, and in every reachable state every key of the group map, the
\* whitelist map and the blacklist map uses only the charset.
C9_NamesValidated ==
    /\ (out.op = "init" /\ \E k \in DefaultNames : ~CharsAllowed(k)) => ~obj
    /\ (out.op = "init" /\ (\A k \in DefaultNames : CharsAllowed(k))
           /\ \A k \in DOMAIN out.inp[1] : out.inp[1][k] \in ControlGroupOptions) => obj
    /\ obj => \A k \in DOMAIN cg \cup DOMAIN cw \cup DOMAIN cb : CharsAllowed(k)

(***************************************************************************)
(* The claims about the controller command.                                *)
(***************************************************************************)
Delegated == out.op = "delegate"

\* C10: no error propagates past delegate: a call that met a failure
\* (validation error, state error, parse failure, host-operation failure,
\* confirmation timeout) ends with exactly one reply and no exception
\* leaves delegate.
C10_NoErrorEscapes ==
    Delegated => /\ out.exc = None
                 /\ out.fail # None => Len(out.sent) = 1

\* The diagnostics of parse_args on the tokens of the last call.
Diagnostics == ParseArgs(out.inp[1]).messages

\* parse_args met an error on the tokens of the last call (a request for
\* help leaves one message, an error the usage and the error line).
ParseError == ParseArgs(out.inp[1]).fail /\ Len(Diagnostics) # 1

\* C11: a parse error is raised as one structured failure: the usage text
\* first and the error line after it; delegate answers it with exactly one
\* negative reply whose body is the diagnostics joined by newlines, no
\* handler is called, no exception leaves delegate and no container changes.
C11_ParseErrorOneReply ==
    [][(out'.op = "delegate" /\ ParseArgs(out'.inp[1]).fail
                             /\ Len(ParseArgs(out'.inp[1]).messages) # 1)
         => /\ Len(ParseArgs(out'.inp[1]).messages) = 2
            /\ SubSeq(ParseArgs(out'.inp[1]).messages[1], 1, 7) = "usage: "
            /\ out'.sent = <<[via |-> "ctx.send",
                              embed |-> MakeMessage(
                                  ParseArgs(out'.inp[1]).messages[1] \o "\n"
                                      \o ParseArgs(out'.inp[1]).messages[2],
                                  EMBED_COLOR__NEG)]>>
            /\ out'.ran = <<>>
            /\ out'.call = <<>>
            /\ out'.exc = None
            /\ UNCHANGED <<cg, cw, cb, trk>>]_vars

\* Two options of one exclusive group were given: one negative reply with
\* the usage and the error, and neither handler ran.
C11_Witness ==
    /\ Delegated
    /\ out.inp[1] = <<"-x", "-u">>
    /\ ParseError
    /\ Len(out.sent) = 1
    /\ out.sent[1].embed.color = EMBED_COLOR__NEG
    /\ out.ran = <<>>
    /\ out.eff = <<>>

\* The dests of a parser in the order of its add_argument calls.
DestsOf(p) == [i \in 1..Len(p.opts) |-> p.opts[i].dest]

\* The fields of the namespace in declaration order: those of the root
\* parser, then those of each subparser.
Declared ==
    DestsOf(PARSER) \o DestsOf(CG) \o DestsOf(CW) \o DestsOf(CB) \o DestsOf(E)
        \o DestsOf(S) \o DestsOf(G) \o DestsOf(C) \o DestsOf(T) \o DestsOf(F)

\* The fields that are not None after parse_args gave ns.
NonNull(ns) == {ns[i].dest : i \in {j \in 1..Len(ns) : ns[j].set}}

\* The first non-null field of ns in declaration order.
FirstDeclared(ns) ==
    Declared[CHOOSE i \in 1..Len(Declared) :
                 /\ Declared[i] \in NonNull(ns)
                 /\ \A j \in 1..(i - 1) : Declared[j] \notin NonNull(ns)]

\* The value parse_args left in the field dest of ns.
ValueOf(ns, dest) == ns[CHOOSE i \in 1..Len(ns) : ns[i].dest = dest].val

\* C12: a delegate call runs at most one handler. When parse_args left a
\* non-null field, the call made is that of the handler named by the first
\* such field in declaration order, with the value of the field unpacked as
\* its positional arguments, and no other handler runs; when it left none
\* (the empty token list included) no handler runs and the one reply is the
\* help of the root parser.
C12_FirstNonNullField ==
    Delegated =>
        \E p \in {ParseArgs(out.inp[1])} :
            /\ Len(out.ran) <= 1
            /\ (~p.fail /\ NonNull(p.ns) = {})
                   => /\ out.ran = <<>>
                      /\ out.call = <<>>
                      /\ out.exc = None
                      /\ out.sent = <<[via |-> "ctx.send",
                                       embed |-> MakeMessage(Help(PARSER), EMBED_COLOR__NEG)]>>
            /\ (~p.fail /\ NonNull(p.ns) # {})
                   => /\ out.call = <<FirstDeclared(p.ns), ValueOf(p.ns, FirstDeclared(p.ns))>>
                      /\ out.ran \in {<<>>, <<FirstDeclared(p.ns)>>}
                      /\ out.ran = <<>> => out.exc = "TypeError"

\* An option of the root parser and one of a subparser were both given:
\* only the handler of the first, the uptime, ran.
C12_Witness ==
    /\ Delegated
    /\ out.inp[1] = <<"-u", "cg", "-l">>
    /\ NonNull(ParseArgs(out.inp[1]).ns) = {"_bot__uptime", "_control_groups__list"}
    /\ out.ran = <<"_bot__uptime">>
    /\ out.call = <<"_bot__uptime", <<>> >>
    /\ Len(out.sent) = 1

\* The last call was given the tokens sync -G g1 ... gn, n >= 1, every id a
\* decimal number.
SyncGuildsGiven ==
    /\ Delegated
    /\ Len(out.inp[1]) >= 3
    /\ out.inp[1][1] \in {"sync", "s"}
    /\ out.inp[1][2] \in {"-G", "--guilds"}
    /\ \A i \in 3..Len(out.inp[1]) : IsDigits(out.inp[1][i])

\* The guild ids listed after -G.
GuildsGiven == SubSeq(out.inp[1], 3, Len(out.inp[1]))

\* C13: the tokens sync -G g1 ... gn select the sync-guilds handler, which
\* is invoked once with the whole list as its one guilds argument: it runs,
\* no exception leaves the call, exactly the n listed guilds are attempted in
\* order, and the reply counts the synced guilds out of n.
C13_SyncGuildsList ==
    SyncGuildsGiven =>
        /\ out.ran = <<"_sync__guilds">>
        /\ out.exc = None
        /\ out.eff = [i \in 1..Len(GuildsGiven) |->
                         "tree.sync " \o ToString(IntOf(GuildsGiven[i]).val)]
        /\ Len(out.sent) = 1
        /\ out.sent[1].embed.body =
               "synced command tree to "
                   \o ToString(Cardinality({i \in 1..Len(GuildsGiven) :
                                   IntOf(GuildsGiven[i]).val \notin out.inp[2].raises}))
                   \o " of " \o ToString(Len(GuildsGiven)) \o " guilds"

\* sub in text
Contains(text, sub) ==
    \E k \in 1..(Len(text) - Len(sub) + 1) : SubSeq(text, k, k + Len(sub) - 1) = sub

\* The tokens q are those of a string+integer pair flag: cw or cb, -a or -r,
\* a name and a second token.
PairGiven(q) ==
    /\ Len(q) = 4
    /\ q[1] \in {"cw", "control-whitelists", "cb", "control-blacklists"}
    /\ q[2] \in {"-a", "--add", "-r", "--remove"}

\* The handler the pair flag of q names.
PairHandler(q) ==
    (IF q[1] \in {"cw", "control-whitelists"} THEN "_control_whitelists__"
                                               ELSE "_control_blacklists__")
        \o (IF q[2] \in {"-a", "--add"} THEN "add" ELSE "remove")

\* C14: for the pair flags of cw and cb, a second token that is not
\* integer-parseable makes routing fail: the one reply is negative and
\* contains "argument 2 must be an integer", no handler is called and no
\* list changes; with a parseable one the handler of the flag is called
\* with the pair of the name and the integer.
C14_StrIntPair ==
    [][(out'.op = "delegate" /\ PairGiven(out'.inp[1]))
         => IF IntOf(out'.inp[1][4]).ok
            THEN /\ out'.call = <<PairHandler(out'.inp[1]),
                                  <<out'.inp[1][3], IntOf(out'.inp[1][4]).val>> >>
                 /\ out'.ran = <<PairHandler(out'.inp[1])>>
            ELSE /\ out'.call = <<>>
                 /\ out'.ran = <<>>
                 /\ out'.exc = None
                 /\ Len(out'.sent) = 1
                 /\ out'.sent[1].embed.color = EMBED_COLOR__NEG
                 /\ Contains(out'.sent[1].embed.body, "argument 2 must be an integer")
                 /\ UNCHANGED <<cw, cb>>]_vars

\* cw -a wl x was refused by the parser, the whitelist "wl" existing.
C14_Witness ==
    /\ Delegated
    /\ out.inp[1] = <<"cw", "-a", "wl", "x">>
    /\ "wl" \in DOMAIN cw
    /\ out.ran = <<>>
    /\ Len(out.sent) = 1
    /\ Contains(out.sent[1].embed.body, "argument 2 must be an integer")

(***************************************************************************)
(* The claims about the trackers.                                          *)
(***************************************************************************)
\* The occurrences of x in list.
Count(list, x) == Cardinality({i \in 1..Len(list) : list[i] = x})

\* The calls in flight that entered a session of the tracker t.
Tracked(t) == {i \in 1..Len(calls) : calls[i].entry # None /\ calls[i].c.tracker = t}

\* The tokens in the active collection of t or held by a call in flight.
Tokens(t) ==
    {trk[t].active[i] : i \in 1..Len(trk[t].active)}
        \cup {calls[i].entry : i \in Tracked(t)}

\* C15: the active collection of a tracker holds exactly the tokens
\* "userid@guildid" of the tracked calls that entered their session and
\* have not ended, each as often as there are such calls: the end of a call,
\* by return or by exception, removes its token, and with no tracked call in
\* flight the collection is empty.
C15_SessionRemoved ==
    \A t \in DOMAIN trk :
        /\ \A e \in Tokens(t) :
               Count(trk[t].active, e) = Cardinality({i \in Tracked(t) : calls[i].entry = e})
        /\ Tracked(t) = {} => trk[t].active = <<>>

\* Of two overlapping calls with the same token one ended by an exception:
\* the token is left once, for the call still in flight.
C15_Witness ==
    /\ out.op = "finish"
    /\ out.exc = "HandlerError"
    /\ out.inp[2] # None
    /\ Len(calls) = 1
    /\ calls[1].entry = out.inp[2]
    /\ "t1" \in DOMAIN trk
    /\ trk["t1"].active = <<out.inp[2]>>
    /\ Opens("t1") = 2
    /\ out.inp[1].blacklist = "bl"

\* The counters of the tracker t, none while there is no such tracker.
CountsOf(trackers, t) == IF t \in DOMAIN trackers THEN trackers[t].counts ELSE <<>>

\* The step is an open of the tracker t: a call of a wrapper made with t
\* entered its session and is now in flight.
Opened(t) ==
    /\ Len(calls') = Len(calls) + 1
    /\ calls'[Len(calls')].entry # None
    /\ calls'[Len(calls')].c.tracker = t

\* C16: an open for a guild raises the counter of that guild by exactly 1,
\* creating it at 1, and changes no other counter, whoever the user is; no
\* other step changes a counter; so the counters of a tracker add up to the
\* number of its opens, which is the number of its history entries while
\* these are fewer than the capacity.
C16_CounterPerOpen ==
    /\ [][\A t \in DOMAIN trk' :
            IF Opened(t)
            THEN /\ DOMAIN CountsOf(trk', t) = DOMAIN CountsOf(trk, t) \cup {out'.inp[4]}
                 /\ \A g \in DOMAIN CountsOf(trk', t) :
                        CountsOf(trk', t)[g] =
                            IF g = out'.inp[4]
                            THEN (IF g \in DOMAIN CountsOf(trk, t)
                                  THEN CountsOf(trk, t)[g] + 1 ELSE 1)
                            ELSE CountsOf(trk, t)[g]
            ELSE CountsOf(trk', t) = CountsOf(trk, t)]_vars
    /\ [](\A t \in DOMAIN trk :
            Len(trk[t].history) < HISTORY_MAXLEN
                => SumCounts(trk[t].counts) = Len(trk[t].history))

\* Two users opened the same tracker in the same guild: its counter is 2 and
\* there is no other counter.
C16_Witness ==
    /\ out.op = "invoke"
    /\ out.ran = <<"cmd">>
    /\ "t2" \in DOMAIN trk
    /\ trk["t2"].counts = (2 :> 2)
    /\ Len(calls) = 2
    /\ calls[1].entry = "1@2"
    /\ calls[2].entry = "2@2"

\* The last n entries of a list, all of them when it has fewer.
LastN(list, n) ==
    IF Len(list) <= n THEN list ELSE SubSeq(list, Len(list) - n + 1, Len(list))

\* The history of the tracker t, empty while there is no such tracker.
HistoryOf(trackers, t) == IF t \in DOMAIN trackers THEN trackers[t].history ELSE <<>>

\* C17: the history of a tracker never holds more than 15 entries, and
\* after n opens it holds min(n, 15) entries; an open appends its entry
\* "userid@time" at the end and keeps before it the most recent entries in
\* their order, dropping the oldest one when there were 15; no other step
\* changes the history.
C17_HistoryFifo ==
    /\ [](\A t \in DOMAIN trk :
            /\ Len(trk[t].history) <= 15
            /\ Len(trk[t].history) = IF Opens(t) < 15 THEN Opens(t) ELSE 15)
    /\ [][\A t \in DOMAIN trk' :
            IF Opened(t)
            THEN HistoryOf(trk', t) =
                     LastN(HistoryOf(trk, t), 14)
                         \o <<Str(out'.inp[3]) \o "@" \o DateStr(now')>>
            ELSE HistoryOf(trk', t) = HistoryOf(trk, t)]_vars

\* After more opens than the capacity the history holds 15 entries, the
\* oldest of them from the second after the first opens and the newest
\* from the last second.
C17_Witness ==
    /\ "t1" \in DOMAIN trk
    /\ Opens("t1") > 15
    /\ Len(trk["t1"].history) = 15
    /\ trk["t1"].history[1] = "1@" \o DateStr(1)
    /\ trk["t1"].history[15] = "1@" \o DateStr(2)

(***************************************************************************)
(* The claims about the lists and the groups under edits.                  *)
(***************************************************************************)
\* The operation o was a call of the handler func that returned.
Succeeded(o, func) == o.op = "delegate" /\ o.ran = <<func>> /\ o.fail = None /\ o.exc = None

\* The operation o was an add that returned, o2 a remove that returned, of
\* the same id on the same list of the same kind.
AddThenRemove(o, o2) ==
    /\ \/ Succeeded(o, "_control_whitelists__add")
             /\ Succeeded(o2, "_control_whitelists__remove")
       \/ Succeeded(o, "_control_blacklists__add")
             /\ Succeeded(o2, "_control_blacklists__remove")
    /\ o2.call[2] = o.call[2]

\* C18: round trip. When a successful add of an id to a list is followed
\* by a successful remove of the same id from the same list, the whitelists
\* and the blacklists are again what they were before the add: the list has
\* its contents in their order, every other list is unchanged.
C18_AddRemoveRoundTrip ==
    [][AddThenRemove(out, out') => (cw' = out.was[1] /\ cb' = out.was[2])]_vars

\* 1 was added to the whitelist "wl", which held 2, and removed again: the
\* list holds 2 as before.
C18_Witness ==
    /\ Succeeded(out, "_control_whitelists__remove")
    /\ out.call[2] = <<"wl", 1>>
    /\ out.was[1]["wl"] = <<2, 1>>
    /\ cw["wl"] = <<2>>

\* The lists of the kind the handler func edits, in the pair lists.
ListsOf(func, lists) ==
    IF func \in {"_control_whitelists__add", "_control_whitelists__remove"}
    THEN lists[1] ELSE lists[2]

\* The operation o called an add (adding) or a remove of an id on a list
\* that exists and that holds the id (held) or does not.
ListCall(o, adding, held) ==
    /\ o.op = "delegate"
    /\ o.call # <<>>
    /\ o.call[1] \in (IF adding
                      THEN {"_control_whitelists__add", "_control_blacklists__add"}
                      ELSE {"_control_whitelists__remove", "_control_blacklists__remove"})
    /\ o.call[2][1] \in DOMAIN ListsOf(o.call[1], o.was)
    /\ Member(o.call[2][2], ListsOf(o.call[1], o.was)[o.call[2][1]]) = held

\* The one reply of o is negative and its text holds the words.
OneNegativeReply(o, words) ==
    /\ Len(o.sent) = 1
    /\ o.sent[1].embed.color = EMBED_COLOR__NEG
    /\ Contains(o.sent[1].embed.body, words)

\* C19: an add of an id the list holds fails with an already-present error
\* and a remove of an id the list does not hold with a not-present error; in
\* both cases every whitelist and blacklist is left as it was and exactly
\* one negative reply is sent.
C19_PresentAbsentErrors ==
    /\ ListCall(out, TRUE, TRUE)
           => /\ out.fail # None
              /\ OneNegativeReply(out, "already contains the userid")
              /\ <<cw, cb>> = out.was
    /\ ListCall(out, FALSE, FALSE)
           => /\ out.fail # None
              /\ OneNegativeReply(out, "does not contains the userid")
              /\ <<cw, cb>> = out.was

\* An add of 1 to the blacklist "bl", which holds it, was answered with the
\* error, the id written with a leading zero.
C19_Witness ==
    /\ ListCall(out, TRUE, TRUE)
    /\ out.inp[1] = <<"cb", "-a", "bl", "01">>
    /\ cb["bl"] = <<1>>
    /\ OneNegativeReply(out, "blacklist 'bl' already contains the userid '1'")

\* C20: devtools._control_groups[name] = level with a level that is no
\* member of ControlGroupOptions raises and leaves the groups unchanged;
\* with a member it makes name map to level, whether or not name was a group
\* before, and leaves every other group at its level. The edit handler,
\* which calls it for a group that exists, changes that group only, and
\* changes nothing when the level text is no member.
C20_SetItem ==
    [][/\ out'.op = "cg_set"
           => IF out'.inp[2] \notin ControlGroupOptions
              THEN out'.exc = "ValueError" /\ cg' = cg
              ELSE /\ out'.exc = None
                   /\ DOMAIN cg' = DOMAIN cg \cup {out'.inp[1]}
                   /\ cg'[out'.inp[1]] = out'.inp[2]
                   /\ \A g \in DOMAIN cg \ {out'.inp[1]} : cg'[g] = cg[g]
       /\ (out'.op = "delegate" /\ out'.call # <<>>
              /\ out'.call[1] = "_control_groups__edit")
           => IF OptionOf(out'.call[2][2]).ok /\ out'.call[2][1] \in DOMAIN cg
              THEN /\ DOMAIN cg' = DOMAIN cg
                   /\ cg'[out'.call[2][1]] = OptionOf(out'.call[2][2]).val
                   /\ \A g \in DOMAIN cg \ {out'.call[2][1]} : cg'[g] = cg[g]
              ELSE cg' = cg /\ out'.fail # None]_vars

\* A group that did not exist was set to devonly, "global" keeping its
\* level.
C20_Witness ==
    /\ out.op = "cg_set"
    /\ out.inp = <<"New-Group", devonly>>
    /\ out.exc = None
    /\ cg["New-Group"] = devonly
    /\ cg["global"] = enabled

(***************************************************************************)
(* The claims about the fast path and the frame of the wrapper.            *)
(***************************************************************************)
\* The wrapper c was made with none of group, whitelist, blacklist, tracker.
Bare(c) == ~Gated(c) /\ c.tracker = None

\* C21: a call of a wrapper made with none of group, whitelist, blacklist
\* and tracker, and any call with neither a Context nor an Interaction among
\* its arguments, goes straight to the wrapped handler: the handler runs, no
\* exception is raised in its place, no notice is sent, and no group, list
\* or tracker changes.
C21_FastPath ==
    [][(out'.op = "invoke" /\ now' = now
            /\ (Bare(out'.inp[1]) \/ ~HasUtx(out'.inp[2])))
         => /\ out'.ran = <<"cmd">>
            /\ out'.exc = None
            /\ out'.sent = <<>>
            /\ UNCHANGED <<cg, cw, cb, trk>>]_vars

\* The (user, guild) pairs of the tracked invocations.
Pairs == UserIds \X {NoId, 1, 2}

\* The calls in flight of the pair p inside a session of the tracker t.
InFlight(t, p) == {i \in Tracked(t) : calls[i].entry = SessionEntry(p[2], p[1])}

\* The occurrences of the token of the pair p in the active collection of t.
Active(trackers, t, p) == Count(trackers[t].active, SessionEntry(p[2], p[1]))

\* C22: however the tracked invocations in flight interleave, the token of
\* each (user, guild) pair occurs in the active collection of a tracker as
\* often as that pair has tracked calls of it in flight; the end of one call,
\* in whatever order the calls end, removes exactly one occurrence of its
\* own token and none of any other pair's, also when the same pair has
\* overlapping sessions.
C22_ActivePerPair ==
    /\ [](\A t \in DOMAIN trk, p \in Pairs :
              Active(trk, t, p) = Cardinality(InFlight(t, p)))
    /\ [][(out'.op = "finish" /\ Len(calls') = Len(calls) - 1)
            => \A t \in DOMAIN trk, p \in Pairs :
                   Active(trk', t, p) =
                       Active(trk, t, p)
                         - (IF /\ out'.inp[1].tracker = t
                               /\ out'.inp[2] = SessionEntry(p[2], p[1])
                            THEN 1 ELSE 0)]_vars

\* Two sessions of one pair overlapped on the tracker t2 and the one that
\* was opened first has returned: one occurrence of the token is left.
C22_Witness ==
    /\ out.op = "finish"
    /\ out.exc = None
    /\ out.inp[1].tracker = "t2"
    /\ out.inp[2] = SessionEntry(1, 2)
    /\ "t2" \in DOMAIN trk
    /\ trk["t2"].active = <<SessionEntry(1, 2)>>
    /\ Opens("t2") = 2
    /\ Len(calls) = 1
    /\ calls[1].entry = SessionEntry(1, 2)

\* Every entry of the map old is in the map new with the same value.
Kept(old, new) == \A k \in DOMAIN old : k \in DOMAIN new /\ new[k] = old[k]

\* The entries of new that old lacks are the value fresh.
Added(old, new, fresh) == \A k \in DOMAIN new \ DOMAIN old : k # None /\ new[k] = fresh

\* The operation o is a set, an edit or an edit-all of the groups.
LevelChange(o) ==
    \/ o.op = "cg_set"
    \/ /\ o.op = "delegate"
       /\ o.call # <<>>
       /\ o.call[1] \in {"_control_groups__edit", "_control_groups__edit_all"}

\* The operation o is a lookup, a check, a decoration or a call of a wrapper
\* or the end of one.
Lookup(o) == o.op \in {"cg_get", "ug_get", "cg_check", "check", "command", "invoke", "finish"}

\* C23: no step deletes a group; the level of an existing group changes only
\* in a set, an edit or an edit-all; get, check, authorize, decoration and
\* invocation leave every existing group at its level and every existing
\* list with its members, and add nothing but groups at inherit and empty
\* lists under names that are not None; get(None) returns nothing and
\* creates nothing.
C23_LookupFrame ==
    [][/\ DOMAIN cg \subseteq DOMAIN cg'
       /\ (\E g \in DOMAIN cg : cg'[g] # cg[g]) => LevelChange(out')
       /\ (Lookup(out') /\ now' = now)
            => /\ Kept(cg, cg') /\ Added(cg, cg', inherit)
               /\ Kept(cw, cw') /\ Added(cw, cw', <<>>)
               /\ Kept(cb, cb') /\ Added(cb, cb', <<>>)
       /\ (out'.op \in {"cg_get", "ug_get"} /\ out'.inp[Len(out'.inp)] = None)
            => /\ out'.ret = None
               /\ UNCHANGED <<cg, cw, cb>>]_vars

\* A call of a wrapper by a user the disabled group g1 refuses created the
\* whitelist the decoration did not have to create and left g1 disabled.
C23_Witness ==
    /\ out.op = "invoke"
    /\ out.inp[1].group = "g1"
    /\ Refused
    /\ cg["g1"] = disabled
    /\ "g2" \in DOMAIN cg
    /\ cg["g2"] = inherit
    /\ "w2" \in DOMAIN cw
    /\ cw["w2"] = <<>>
    /\ cw["wl"] = <<1>>

(***************************************************************************)
(* The claims about the bulk operations and the dialogs.                   *)
(***************************************************************************)
\* The tokens q name a bulk operation on extensions.
ExtensionBulk(q) ==
    /\ Len(q) = 2
    /\ q[1] \in {"e", "extensions"}
    /\ q[2] \in {"-R", "--reload-all", "-U", "--unload-all", "-L", "--load-all"}

\* The tokens q name the sync of a list of guilds.
GuildBulk(q) == Len(q) > 2 /\ q[1] \in {"s", "sync"} /\ q[2] \in {"-G", "--guilds"}

\* The host method of the bulk operation q.
BulkOp(q) ==
    IF GuildBulk(q) THEN "tree.sync"
    ELSE IF q[2] \in {"-R", "--reload-all"} THEN "reload_extension"
    ELSE IF q[2] \in {"-U", "--unload-all"} THEN "unload_extension"
    ELSE "load_extension"

\* The items of the bulk operation q on the host: the guild ids given, the
\* loaded extensions, the modules found.
BulkItems(q, host) ==
    IF GuildBulk(q) THEN SubSeq(q, 3, Len(q))
    ELSE IF BulkOp(q) = "load_extension" THEN host.found
    ELSE host.extensions

\* The items for which the host operation succeeds.
BulkDone(q, host) ==
    IF GuildBulk(q)
    THEN SelectSeq(BulkItems(q, host), LAMBDA g : IntOf(g).val \notin host.raises)
    ELSE ExtensionsDone(BulkItems(q, host), host.ext_raises)

\* C24: a bulk operation (reload-all, unload-all, load-all of extensions,
\* sync of several guilds) that has items to work on calls the host for
\* every item, in order, whatever the calls before it did, lets no
\* exception out, and sends exactly one reply, which reports N of M, M the
\* number of items and N the number of items the host operation succeeded
\* for.
C24_BulkAttemptsAll ==
    LET q == out.inp[1]
        host == out.inp[2]
        items == BulkItems(q, host)
    IN (/\ Delegated
        /\ ExtensionBulk(q) \/ GuildBulk(q)
        /\ items # <<>>
        /\ BulkOp(q) = "load_extension" => host.extensions_path # "none")
         => /\ out.exc = None
            /\ out.eff = [i \in 1..Len(items) |-> BulkOp(q) \o " " \o items[i]]
            /\ Len(out.sent) = 1
            /\ Contains(out.sent[1].embed.body,
                        ToString(Len(BulkDone(q, host))) \o " of "
                            \o ToString(Len(items)))

\* The last call of the controller command came to the removal handler.
RemoveCalled == Delegated /\ out.call # <<>> /\ out.call[1] = "_files__remove"

\* The removal handler came to its confirmation dialog: the instance has a
\* files path and the target is a file or an empty directory.
RemoveDialog ==
    RemoveCalled /\ out.inp[2].files_path /\ out.inp[2].path \in {"file", "empty_dir"}

\* The remover of the target was called.
RemoverCalled == \E i \in 1..Len(out.eff) : out.eff[i] \in {"unlink", "rmdir"}

\* The replies of the last call in the negative colour.
NegativeReplies == SelectSeq(out.sent, LAMBDA m : m.embed.color = EMBED_COLOR__NEG)

\* C25: the removal handler calls the remover of its target only when the
\* first message of the same author in the same channel after the prompt
\* has exactly the confirmation code as its content; any other such message
\* ends the dialog with one negative reply after the prompt and removes
\* nothing; when no such message arrives within the timeout nothing is
\* removed, the wait is not repeated and no second prompt is sent.
C25_RemoveConfirmation ==
    LET host == out.inp[2]
    IN /\ (RemoveCalled /\ RemoverCalled)
            => RemoveDialog /\ host.arrives /\ host.content = host.code
       /\ (RemoveDialog /\ host.arrives /\ host.content # host.code)
            => /\ out.eff = <<"wait_for">>
               /\ Len(out.sent) = 2
               /\ Len(NegativeReplies) = 1
               /\ out.sent[2].embed.color = EMBED_COLOR__NEG
               /\ Contains(out.sent[2].embed.body, "has been cancelled")
       /\ (RemoveDialog /\ ~host.arrives)
            => /\ out.eff = <<"wait_for">>
               /\ Len(out.sent) = 1
               /\ NegativeReplies = <<>>

\* The answer was the code in lower case: the empty directory stays.
C25_Witness ==
    /\ RemoveDialog
    /\ out.inp[2].path = "empty_dir"
    /\ out.inp[2].arrives
    /\ out.inp[2].code = "Xy7"
    /\ out.inp[2].content = "xy7"
    /\ ~RemoverCalled
    /\ Len(NegativeReplies) = 1

\* The names a handler looks its first argument up in, in the containers
\* given: the whitelists, the blacklists, the groups or the trackers.
NamesFor(func, groups, wls, bls, trackers) ==
    IF func \in {"_control_whitelists__get", "_control_whitelists__add",
                 "_control_whitelists__remove"} THEN DOMAIN wls
    ELSE IF func \in {"_control_blacklists__get", "_control_blacklists__add",
                      "_control_blacklists__remove"} THEN DOMAIN bls
    ELSE IF func = "_control_groups__edit" THEN DOMAIN groups
    ELSE DOMAIN trackers

\* The operation o is a get, add or remove of a list, an edit of a group or
\* a get of a tracker, with arguments that fit the handler.
NameCall(o) ==
    /\ o.op = "delegate"
    /\ o.call # <<>>
    /\ o.call[1] \in {"_control_whitelists__get", "_control_whitelists__add",
                      "_control_whitelists__remove", "_control_blacklists__get",
                      "_control_blacklists__add", "_control_blacklists__remove",
                      "_control_groups__edit", "_trackers__get"}
    /\ Len(o.call[2]) = Params(o.call[1])

\* The words of the reply for a name that is missing.
MissingWords(func, name) ==
    IF func = "_trackers__get" THEN "tracker '" \o name \o "' does not exist"
    ELSE IF func = "_control_groups__edit" THEN "group '" \o name \o "' not found"
    ELSE IF func \in {"_control_whitelists__get", "_control_whitelists__add",
                      "_control_whitelists__remove"}
    THEN "whitelist '" \o name \o "' not found"
    ELSE "blacklist '" \o name \o "' not found"

DeniedTracked ==
    /\ out'.op = "invoke"
    /\ now' = now
    /\ out'.inp[1].tracker # None
    /\ HasUtx(out'.inp[2])
    /\ ~Authorized(out'.inp[1], GetUserId(out'.inp[2], out'.inp[3]))

\* C27: a call of a wrapper made with a tracker by a user the access check
\* refuses leaves every tracker as it was (no counter raised, no history
\* entry appended, no token made active) and puts no call in flight; a step
\* that opens a session of a tracker is a call by a user the check admits.
C27_DeniedNotTracked ==
    [][/\ DeniedTracked => UNCHANGED <<trk, calls>>
       /\ \A t \in DOMAIN trk' :
              Opened(t) => Authorized(out'.inp[1], GetUserId(out'.inp[2], out'.inp[3]))]_vars

\* The blacklisted user 1 was refused while a call of user 2 was in flight
\* in the tracker: the tracker has counted that one call only.
C27_Witness ==
    /\ out.op = "invoke"
    /\ Refused
    /\ out.inp[1].tracker = "t1"
    /\ out.inp[3] = 1
    /\ "t1" \in DOMAIN trk
    /\ Opens("t1") = 1
    /\ Len(trk["t1"].history) = 1
    /\ trk["t1"].active = <<SessionEntry(1, 2)>>
    /\ Len(calls) = 1

\* The step is a call of the command name of the container that came to
\* its callback proper, the command having a placeholder that was resolved.
ResolvedCall(name) ==
    /\ out'.op = "invoke_member"
    /\ out'.inp[1] = name
    /\ out'.ran = <<"cmd">>
    /\ calls = <<>>
    /\ calls' # <<>>
    /\ cog[name].marker # <<>>
    /\ cog[name].wrappers # <<>>

\* C28: resolve_placeholders is idempotent.  However often the container
\* was resolved, every command with a placeholder has one wrapper around
\* its callback and a command without one has none; so a call of such a
\* command that comes to its callback made one access check and, the
\* placeholder naming a tracker, opened one session of it: the counters of
\* the tracker went up by one, and so did its history and its active
\* tokens.
C28_ResolveIdempotent ==
    /\ [](\A name \in DOMAIN cog :
              /\ Len(cog[name].wrappers) <= 1
              /\ cog[name].marker = <<>> => cog[name].wrappers = <<>>)
    /\ [][\A name \in DOMAIN cog :
              ResolvedCall(name)
                => LET t == cog[name].marker[1].tracker
                   IN /\ Count(out'.eff, "_check") = 1
                      /\ t # None
                           => /\ Count(out'.eff, "session") = 1
                              /\ SumCounts(trk'[t].counts) = SumCounts(trk[t].counts) + 1
                              /\ Len(trk'[t].history) = Len(trk[t].history) + 1
                              /\ Len(trk'[t].active) = Len(trk[t].active) + 1]_vars

\* The step is an edit of the permissions: a call of the controller command
\* or an assignment of a level.
EditStep == out'.op \in {"delegate", "cg_set"} /\ now' = now

\* The step is a call of a wrapper made with a group, whitelist or blacklist.
GatedCall == out'.op = "invoke" /\ now' = now /\ Gated(out'.inp[1])

\* C29: permission edits take effect on the next call and leave the calls
\* in flight alone.  In every state a user whom the blacklist of a command
\* holds, and every user when the group of a command without whitelist is
\* disabled, is denied by the access check; a call of a wrapper by a user
\* whom the check denies on the groups and lists as they then are is
\* refused with the locked notice, the handler not run and no call put in
\* flight; and an edit changes neither the calls in flight nor any tracker.
C29_EditsApplyToNextCall ==
    /\ [](\A c \in cmds, u \in {1, 2} :
              (\/ c.blacklist # None /\ Member(u, cb[c.blacklist])
               \/ c.group # None /\ c.whitelist = None /\ cg[c.group] = disabled)
                 => ~Authorized(c, u))
    /\ [][/\ (GatedCall /\ ~Authorized(out'.inp[1], out'.inp[3]))
               => /\ out'.ran = <<>>
                  /\ Len(out'.sent) = 1
                  /\ out'.sent[1].embed = MakeMessage(M_COMMAND_LOCKED, EMBED_COLOR__NEG)
                  /\ UNCHANGED <<calls, trk>>
          /\ EditStep => UNCHANGED <<calls, trk>>]_vars

\* User 2 was refused after the group was disabled, with the call the same
\* user made before the edit still in flight and in the tracker.
C29_Witness ==
    /\ out.op = "invoke"
    /\ Refused
    /\ out.inp[3] = 2
    /\ cg["g1"] = disabled
    /\ cb["bl"] = <<>>
    /\ Len(calls) = 1
    /\ calls[1].entry = SessionEntry(1, 2)
    /\ trk["t1"].active = <<SessionEntry(1, 2)>>
    /\ Opens("t1") = 1

\* The step is a call of the controller command that came to edit-all.
EditAllStep ==
    /\ out'.op = "delegate"
    /\ out'.call # <<>>
    /\ out'.call[1] = "_control_groups__edit_all"
    /\ Len(out'.call[2]) = 1

\* C30: an edit-all whose level text names an option leaves the names of
\* the groups as they were and every group, "global" among them, at that
\* option, and answers with one positive reply; an edit-all with any other
\* level text fails with one negative reply and leaves every group at its
\* level.  Neither touches a list or a tracker.
C30_EditAll ==
    [][EditAllStep
         => /\ IF OptionOf(out'.call[2][1]).ok
               THEN /\ DOMAIN cg' = DOMAIN cg
                    /\ "global" \in DOMAIN cg'
                    /\ \A g \in DOMAIN cg' : cg'[g] = OptionOf(out'.call[2][1]).val
                    /\ out'.fail = None
                    /\ Len(out'.sent) = 1
                    /\ out'.sent[1].embed.color = EMBED_COLOR__POS
               ELSE /\ cg' = cg
                    /\ out'.fail # None
                    /\ OneNegativeReply(out', "invalid choice")
            /\ out'.exc = None
            /\ UNCHANGED <<cw, cb, trk>>]_vars

\* An edit-all to modplus of an instance whose second group was disabled.
C30_Witness ==
    /\ Succeeded(out, "_control_groups__edit_all")
    /\ out.inp[1] = <<"cg", "-E", "modplus">>
    /\ DOMAIN cg = {"global", "g1"}
    /\ cg["global"] = modplus
    /\ cg["g1"] = modplus

====
